---------------------------- MODULE Spec2Model ----------------------------
(***************************************************************************)
(* State-machine model of the networking-ansible ML2 mechanism driver      *)
(* (networking_ansible/ml2/mech_driver.py, class AnsibleMechanismDriver).  *)
(*                                                                         *)
(* A worker is one API worker thread of the control plane: it commits a    *)
(* change to the store and then runs the driver's hook for that change.    *)
(* Hooks are split into steps at the points where other threads can        *)
(* interleave: waiting for the switch lock, the reads made under the lock, *)
(* and the device call.  The lock is released in the step that leaves the  *)
(* "with lock:" block.                                                     *)
(***************************************************************************)
EXTENDS Integers, Sequences, FiniteSets, TLC

VARIABLES
    networks,   \* store: network id -> [exists, segments]
    ports,      \* store: port id -> port (NoPort when absent)
    trunks,     \* store: parent port id -> [exists, sub_ports]
    lock,       \* coordinator: switch name -> holder (NoOne when free)
    wk,         \* worker -> the hook it runs, its position and its locals
    vlans,      \* device: switch name -> VLANs defined on the switch
    portcfg,    \* device: <<switch, switch port>> -> port configuration
    nevents,    \* number of control-plane events so far
    scope       \* the ports the control plane works with in this behaviour
                \* (and "reliable" when the device does not fail in it)

vars == <<networks, ports, trunks, lock, wk, vlans, portcfg, nevents, scope>>

---------------------------------------------------------------------------
(* Bounds *)

MaxEvents == 3

---------------------------------------------------------------------------
(* Strings are sequences of one-character strings where the code edits     *)
(* them (host ids, PCI addresses).                                         *)

Workers == {"w1", "w2"}
NoOne == "-"

\* Exceptions a hook can end with ("" when it returns normally)
NetworkingAnsibleMechException == "NetworkingAnsibleMechException"
MechanismDriverError == "MechanismDriverError"
LocalLinkInfoMissingException == "LocalLinkInfoMissingException"

H1 == <<"h", "1">>
H2 == <<"h", "2">>
H3 == <<"h", "3">>
H4 == <<"h", "4">>
NoHost == <<>>
NoSlot == <<>>

\* ml2config.inventory, in iteration order.  SW2 sets manage_vlans = False,
\* SW1 and SW3 do not set the flag.
InventoryOrder == <<"SW1", "SW2", "SW3">>
Inventory == {InventoryOrder[i] : i \in 1..Len(InventoryOrder)}
HostFlags == [s \in Inventory |-> IF s = "SW2" THEN {<<"manage_vlans", FALSE>>} ELSE {}]

\* Mutant: the manage_vlans flag of the inventory entry is not looked at.
manage_vlans_ignored(host) == TRUE

\* host.get('manage_vlans', True)
manage_vlans(host) ==
    IF \E kv \in HostFlags[host] : kv[1] = "manage_vlans"
    THEN \E kv \in HostFlags[host] : kv[1] = "manage_vlans" /\ kv[2]
    ELSE TRUE

\* net_runr.has_host(switch_name)
has_host(switch_name) == switch_name \in Inventory

\* Switch names that topology resolution can produce ("SWX" is in no inventory).
SwitchNames == Inventory \cup {"SWX"}
SwitchPorts == {"Eth1/1", "Eth1/10", "Eth1/11"}

NetIds == {"N1", "N2"}

Segment(t, v, pn) == [network_type |-> t, segmentation_id |-> v, physical_network |-> pn]

NoNet == [exists |-> FALSE, segments |-> <<>>]
Net(segs) == [exists |-> TRUE, segments |-> segs]

\* The provider attributes of a network as the hooks receive them
\* (context.current / context.network.current).  0 stands for None.
NoNetDict == [id |-> "", network_type |-> "", segmentation_id |-> 0, physical_network |-> ""]
NetDict(n, seg) == [id |-> n, network_type |-> seg.network_type,
                    segmentation_id |-> seg.segmentation_id,
                    physical_network |-> seg.physical_network]

SegChoices == {Segment("vlan", 50, "physnet1"), Segment("vlan", 50, "physnet2"),
               Segment("vlan", 60, "physnet1"), Segment("vxlan", 50, "")}

\* The store keeps (type, physical network, segmentation id) unique.
SegmentFree(seg) ==
    \A n \in NetIds : \A i \in 1..Len(networks[n].segments) : networks[n].segments[i] # seg

---------------------------------------------------------------------------
(* Ports *)

COMPUTE_NOVA == "compute:nova"
VNIC_NORMAL == "normal"
VNIC_BAREMETAL == "baremetal"
VNIC_DIRECT == "direct"
VNIC_MACVTAP == "macvtap"
VIF_TYPE_OTHER == "other"
VIF_TYPE_OVS == "ovs"
VIF_TYPE_UNBOUND == "unbound"
SUPPORTED_TYPES == {VNIC_BAREMETAL, VNIC_NORMAL, VNIC_DIRECT}

LinkInfo(name, mac, p) == [switch_info |-> name, switch_id |-> mac, port_id |-> p]

NoPort == [id |-> "", mac_address |-> "", device_owner |-> "", network_id |-> "",
           host |-> NoHost, vnic_type |-> "", vif_type |-> "", lli |-> <<>>,
           pci_slot |-> NoSlot]

\* "not port": None, or a lookup that found nothing.
IsNone(port) == port.id = ""

vnic_type_of(port) == port.vnic_type

\* Mutant: every VNIC type is taken.
is_port_supported_any(port) == TRUE

\* _is_port_supported
is_port_supported(port) == vnic_type_of(port) \in SUPPORTED_TYPES

\* _is_port_baremetal
is_port_baremetal(port) == vnic_type_of(port) = VNIC_BAREMETAL

\* _is_port_normal: decided by the device owner, not by the VNIC type
is_port_normal(port) == port.device_owner = COMPUTE_NOVA

\* _is_port_direct
is_port_direct(port) == vnic_type_of(port) = VNIC_DIRECT

\* Mutant: every supported port counts as bound.
is_port_bound_supported(port) == is_port_supported(port)

\* _is_port_bound
is_port_bound(port) ==
    IF ~is_port_supported(port) THEN FALSE
    ELSE IF is_port_baremetal(port) THEN port.vif_type = VIF_TYPE_OTHER
    ELSE IF is_port_normal(port) THEN port.vif_type = VIF_TYPE_OVS
    ELSE FALSE

\* _get_port_lli: <<>> stands for None.  A Port object read from the store
\* (isobj) is not tested for its VNIC type, a port dict is.
get_port_lli(port, isobj) ==
    IF IsNone(port) THEN <<>>
    ELSE IF isobj THEN port.lli
    ELSE IF ~is_port_supported(port) THEN <<>>
    ELSE port.lli

\* str.split('.')[0]
RECURSIVE SplitDot(_)
SplitDot(s) == IF s = <<>> \/ Head(s) = "." THEN <<>> ELSE <<Head(s)>> \o SplitDot(Tail(s))

IsPrefix(sub, s) == Len(sub) <= Len(s) /\ SubSeq(s, 1, Len(sub)) = sub

\* str.replace(sub, ''): every non-overlapping occurrence, left to right
RECURSIVE Remove(_, _)
Remove(s, sub) ==
    IF s = <<>> THEN <<>>
    ELSE IF IsPrefix(sub, s) THEN Remove(SubSeq(s, Len(sub) + 1, Len(s)), sub)
    ELSE <<Head(s)>> \o Remove(Tail(s), sub)

\* What _build_sriov_host_id gives when it raises: a profile without
\* pci_slot gives None, and None.split('.') raises AttributeError.
NoKey == <<"AttributeError">>

\* _build_sriov_host_id
build_sriov_host_id(port, host_id) ==
    LET a == SplitDot(port.pci_slot)
        b == Remove(a, <<"0", "0", "0", "0", ":">>)
        c == Remove(b, <<":">>)
    IN  IF port.pci_slot = NoSlot THEN NoKey ELSE host_id \o <<"-">> \o c

\* ml2config.port_mappings.get(host_id, [])
port_mappings(host_id) ==
    CASE host_id = H1 -> << <<"SW1", "Eth1/10">> >>
      [] host_id = H2 -> << <<"SW1", "Eth1/11">>, <<"SW3", "Eth1/11">> >>
      [] host_id = H4 -> << <<"SW1", "Eth1/11">>, <<"SWX", "Eth1/1">> >>
      [] host_id = H1 \o <<"-", "0", "3", "0", "0">> -> << <<"SW1", "Eth1/11">> >>
      [] host_id = H1 \o <<"-", "0", "4", "0", "0">> -> << <<"SW1", "Eth1/10">> >>
      [] OTHER -> <<>>

\* The MAC address of switch SW2 as the link information of a port spells
\* it, a sequence of characters; the configuration has it in upper case.
SwitchMac02 == <<"a", "a", ":", "b", "b", ":", "c", "c", ":", "0", "0", ":", "0", "0", ":", "0", "2">>

\* str.upper() of one character
UpperChar(c) ==
    CASE c = "a" -> "A" [] c = "b" -> "B" [] c = "c" -> "C" [] c = "d" -> "D"
      [] c = "e" -> "E" [] c = "f" -> "F" [] c = "g" -> "G" [] c = "h" -> "H"
      [] c = "i" -> "I" [] c = "j" -> "J" [] c = "k" -> "K" [] c = "l" -> "L"
      [] c = "m" -> "M" [] c = "n" -> "N" [] c = "o" -> "O" [] c = "p" -> "P"
      [] c = "q" -> "Q" [] c = "r" -> "R" [] c = "s" -> "S" [] c = "t" -> "T"
      [] c = "u" -> "U" [] c = "v" -> "V" [] c = "w" -> "W" [] c = "x" -> "X"
      [] c = "y" -> "Y" [] c = "z" -> "Z" [] OTHER -> c

\* str.upper()
upper(mac) == [i \in 1..Len(mac) |-> UpperChar(mac[i])]

\* ml2config.mac_map ("" when the MAC is not in the map)
mac_map(mac) == IF mac = upper(SwitchMac02) THEN "SW2" ELSE ""

Meta(err, mappings, segmentation_id) ==
    [err |-> err, mappings |-> mappings, segmentation_id |-> segmentation_id]

\* Mutant: a port without link information resolves to no mapping.
switch_meta_from_link_info_no_raise(port, network, isobj) ==
    LET local_link_info == get_port_lli(port, isobj)
    IN  IF local_link_info = <<>> THEN Meta("", <<>>, 0)
        ELSE Meta("", << <<local_link_info[1].switch_info, local_link_info[1].port_id>> >>,
                  network.segmentation_id)

\* _switch_meta_from_link_info
switch_meta_from_link_info(port, network, isobj) ==
    LET local_link_info == get_port_lli(port, isobj)
        switch_mac == upper(local_link_info[1].switch_id)
        switch_info == local_link_info[1].switch_info
        switch_name == IF switch_info = "" /\ mac_map(switch_mac) # ""
                       THEN mac_map(switch_mac) ELSE switch_info
    IN  IF local_link_info = <<>>
        THEN Meta(LocalLinkInfoMissingException, <<>>, 0)
        ELSE Meta("", << <<switch_name, local_link_info[1].port_id>> >>,
                  network.segmentation_id)

\* host_id = port[portbindings.HOST_ID]; if type direct get the pci address
\* and append to host_id
host_id_key(port) ==
    IF is_port_direct(port) THEN build_sriov_host_id(port, port.host) ELSE port.host

\* _switch_meta_from_port_host_id
switch_meta_from_port_host_id(port, network) ==
    IF host_id_key(port) = NoKey THEN Meta("AttributeError", <<>>, 0)
    ELSE Meta("", port_mappings(host_id_key(port)), network.segmentation_id)

\* get_switch_meta: (None, None) for a port that is neither bare-metal nor
\* compute-owned; the callers iterate over the mappings, which raises
\* TypeError on None.
get_switch_meta(port, network, isobj) ==
    IF is_port_baremetal(port) THEN switch_meta_from_link_info(port, network, isobj)
    ELSE IF is_port_normal(port) THEN switch_meta_from_port_host_id(port, network)
    ELSE Meta("TypeError", <<>>, 0)

---------------------------------------------------------------------------
(* Workers, locks, device calls *)

Idle == [op |-> "none", pc |-> "done", net |-> NoNetDict, port_id |-> "", port |-> NoPort,
         cur |-> NoPort, orig |-> NoPort, segs |-> <<>>, todo |-> <<>>, sw |-> "", swport |-> "",
         del |-> FALSE, rnet |-> NoNet, segments |-> {}, updated |-> NoPort,
         active |-> {}, calls |-> <<>>, bound |-> <<>>, prov |-> <<>>, err |-> "",
         pending |-> FALSE, mports |-> {}, aports |-> {}]

Call(o, s, p, v, m, ok) == [op |-> o, sw |-> s, port |-> p, vlan |-> v, members |-> m, ok |-> ok]

\* The results a device call can have: it succeeds or raises.  A behaviour
\* whose scope holds "reliable" is one in which the device never fails.
Results == IF "reliable" \in scope THEN {TRUE} ELSE BOOLEAN

Acquired(w, name) == [lock EXCEPT ![name] = w]
Released(w, name) == [lock EXCEPT ![name] = NoOne]

\* Mutant: the lock is given up once the reads are done.
Held_released(w, name) == [lock EXCEPT ![name] = NoOne]

\* Still inside the "with lock:" block after the reads: the lock stays held.
Held(w, name) == lock

\* Mutant: an exception leaves the block without releasing the lock.
LeaveLock_leak(w, name, err) == IF err # "" THEN lock ELSE [lock EXCEPT ![name] = NoOne]

\* Mutant: the lock is kept when the block is left.
LeaveLock_kept(w, name, err) == lock

\* Leaving the "with lock:" block, by a return or by exception err.
LeaveLock(w, name, err) == Released(w, name)

\* Mutant: the lock is taken without waiting for it.
LockFree_always(name) == TRUE

\* coordinator.get_lock(name); "with lock:" blocks until the lock is free.
LockFree(name) == lock[name] = NoOne

\* The hook returns (normally or by raising err): its locals go away, what it
\* did stays visible until the worker takes its next request.  A binding
\* that bind_port has set on its context is left for its caller to commit.
Return(r, err) == [Idle EXCEPT !.op = r.op, !.net = r.net, !.port = r.port,
                               !.port_id = r.port_id,
                               !.cur = r.cur, !.orig = r.orig, !.del = r.del, !.segs = r.segs,
                               !.calls = r.calls, !.bound = r.bound, !.prov = r.prov,
                               !.err = err,
                               !.pending = (r.op = "bind_port" /\ err = ""
                                              /\ r.bound # <<>>)]

\* The worker thread is back from its hook and from what its caller does
\* with the hook's result: it can take the next request.
Free(w) == wk[w].pc = "done" /\ ~wk[w].pending

Last(s) == s[Len(s)]

RECURSIVE SeqToSet(_)
SeqToSet(s) == IF s = <<>> THEN {} ELSE {Head(s)} \cup SeqToSet(Tail(s))

---------------------------------------------------------------------------
(* Device Operation Gateway (network_runner): effect of a successful call  *)

NoCfg == [mode |-> "none", vlan |-> 0, members |-> {}]

create_vlan(sw, v) == [vlans EXCEPT ![sw] = @ \cup {v}]
delete_vlan(sw, v) == [vlans EXCEPT ![sw] = @ \ {v}]
conf_access_port(sw, p, v) ==
    [portcfg EXCEPT ![<<sw, p>>] = [mode |-> "access", vlan |-> v, members |-> {}]]
conf_trunk_port(sw, p, v, tv) ==
    [portcfg EXCEPT ![<<sw, p>>] = [mode |-> "trunk", vlan |-> v, members |-> SeqToSet(tv)]]
add_trunk_vlan(sw, p, v) ==
    [portcfg EXCEPT ![<<sw, p>>] = [mode |-> "trunk", vlan |-> @.vlan, members |-> @.members \cup {v}]]
delete_trunk_vlan(sw, p, v) ==
    [portcfg EXCEPT ![<<sw, p>>] = [mode |-> @.mode, vlan |-> @.vlan, members |-> @.members \ {v}]]
delete_port(sw, p) == [portcfg EXCEPT ![<<sw, p>>] = NoCfg]

---------------------------------------------------------------------------
(* Network lifecycle: create_network_postcommit                            *)

\* Mutant: the handler returns after the first switch it has configured.
create_network_next_once(r, hosts) ==
    LET idx == {i \in 1..Len(hosts) : manage_vlans(hosts[i])}
        first == CHOOSE i \in idx : \A j \in idx : i <= j
    IN  IF idx = {} \/ r.calls # <<>> THEN Return(r, "")
        ELSE [r EXCEPT !.pc = "acquire", !.sw = hosts[first],
                       !.todo = SubSeq(hosts, first + 1, Len(hosts))]

\* for host_name in inventory: if host.get('manage_vlans', True): ...
\* Skips the hosts that take no lock; returns when the inventory is exhausted.
RECURSIVE create_network_next(_, _)
create_network_next(r, hosts) ==
    IF hosts = <<>> THEN Return(r, "")
    ELSE IF manage_vlans(Head(hosts))
         THEN [r EXCEPT !.pc = "acquire", !.sw = Head(hosts), !.todo = Tail(hosts)]
         ELSE create_network_next(r, Tail(hosts))

\* The control plane commits network n, then calls the hook with it.
create_network_postcommit(w, n, seg) ==
    /\ Free(w)
    /\ nevents < MaxEvents
    /\ ~networks[n].exists
    /\ SegmentFree(seg)
    /\ networks' = [networks EXCEPT ![n] = Net(<<seg>>)]
    /\ wk' = [wk EXCEPT ![w] =
                create_network_next([Idle EXCEPT !.op = "create_network",
                                                 !.net = NetDict(n, seg)],
                                    InventoryOrder)]
    /\ nevents' = nevents + 1
    /\ UNCHANGED <<ports, trunks, lock, vlans, portcfg, scope>>

\* lock = self.coordinator.get_lock(name); with lock:
get_lock(w) ==
    /\ wk[w].pc = "acquire"
    /\ LockFree(wk[w].sw)
    /\ lock' = Acquired(w, wk[w].sw)
    /\ wk' = [wk EXCEPT ![w].pc = "locked"]
    /\ UNCHANGED <<networks, ports, trunks, vlans, portcfg, nevents, scope>>

\* s_ids = [s.segmentation_id for s in net.segments]
s_ids(net) == {net.segments[i].segmentation_id : i \in 1..Len(net.segments)}

\* Mutant: the segment list of the re-read network is not looked at.
create_network_fresh_exists_only(net, segmentation_id) == net.exists

\* The staleness checks on the re-read network: TRUE when the request goes on.
create_network_fresh(net, segmentation_id) ==
    /\ net.exists
    /\ segmentation_id \in s_ids(net)

\* Under the lock: the type test, the re-read and the staleness checks.
create_network_read(w) ==
    LET r == wk[w]
        net == networks[r.net.id]
    IN  /\ r.pc = "locked"
        /\ r.op = "create_network"
        /\ IF ~(r.net.network_type = "vlan" /\ r.net.segmentation_id # 0)
           THEN /\ wk' = [wk EXCEPT ![w] = create_network_next(r, r.todo)]
                /\ lock' = LeaveLock(w, r.sw, "")
           ELSE IF create_network_fresh(net, r.net.segmentation_id)
           THEN /\ wk' = [wk EXCEPT ![w].pc = "apply", ![w].rnet = net]
                /\ lock' = Held(w, r.sw)
           ELSE /\ wk' = [wk EXCEPT ![w] = Return(r, "")]
                /\ lock' = LeaveLock(w, r.sw, "")
        /\ UNCHANGED <<networks, ports, trunks, vlans, portcfg, nevents, scope>>

\* self.net_runr.create_vlan(host_name, segmentation_id); a failure is
\* re-raised as NetworkingAnsibleMechException.
create_network_apply(w) ==
    LET r == wk[w]
        v == r.net.segmentation_id
    IN  /\ r.pc = "apply"
        /\ r.op = "create_network"
        /\ \E ok \in Results :
             LET r2 == [r EXCEPT !.calls = Append(@, Call("create_vlan", r.sw, "", v, <<>>, ok))]
             IN  /\ vlans' = IF ok THEN create_vlan(r.sw, v) ELSE vlans
                 /\ wk' = [wk EXCEPT ![w] =
                             IF ok THEN create_network_next(r2, r.todo)
                                   ELSE Return(r2, NetworkingAnsibleMechException)]
        /\ lock' = LeaveLock(w, r.sw, wk'[w].err)
        /\ UNCHANGED <<networks, ports, trunks, portcfg, nevents, scope>>

---------------------------------------------------------------------------
(* Network lifecycle: delete_network_postcommit                            *)

\* Mutant: the network type is not looked at.
delete_network_next_any_type(r, hosts) ==
    LET idx == {i \in 1..Len(hosts) : manage_vlans(hosts[i])}
        first == CHOOSE i \in idx : \A j \in idx : i <= j
    IN  IF idx = {} \/ r.net.segmentation_id = 0 THEN Return(r, "")
        ELSE [r EXCEPT !.pc = "acquire", !.sw = hosts[first],
                       !.todo = SubSeq(hosts, first + 1, Len(hosts))]

\* for host_name in inventory:
\*     if provider_type == 'vlan' and segmentation_id:
\*         if host.get('manage_vlans', True): lock ...
RECURSIVE delete_network_next(_, _)
delete_network_next(r, hosts) ==
    IF hosts = <<>> THEN Return(r, "")
    ELSE IF /\ r.net.network_type = "vlan" /\ r.net.segmentation_id # 0
            /\ manage_vlans(Head(hosts))
         THEN [r EXCEPT !.pc = "acquire", !.sw = Head(hosts), !.todo = Tail(hosts)]
         ELSE delete_network_next(r, Tail(hosts))

\* Provider attributes of a stored network: those of its segment when it has
\* exactly one, none otherwise.
ProviderDict(n) ==
    IF Len(networks[n].segments) = 1
    THEN NetDict(n, networks[n].segments[1])
    ELSE [NoNetDict EXCEPT !.id = n]

\* The control plane deletes network n (it refuses while ports use it), then
\* calls the hook with the network as it was.
delete_network_postcommit(w, n) ==
    /\ Free(w)
    /\ nevents < MaxEvents
    /\ networks[n].exists
    /\ \A p \in DOMAIN ports : ports[p].network_id # n
    /\ networks' = [networks EXCEPT ![n] = NoNet]
    /\ wk' = [wk EXCEPT ![w] =
                delete_network_next([Idle EXCEPT !.op = "delete_network",
                                                 !.net = ProviderDict(n)],
                                    InventoryOrder)]
    /\ nevents' = nevents + 1
    /\ UNCHANGED <<ports, trunks, lock, vlans, portcfg, scope>>

\* NetworkSegment.get_objects(db, segmentation_id=segmentation_id)
get_segments(segmentation_id) ==
    {networks[n].segments[i] : <<n, i>> \in
        {x \in NetIds \X (1..2) : /\ x[2] <= Len(networks[x[1]].segments)
                                  /\ networks[x[1]].segments[x[2]].segmentation_id
                                        = segmentation_id}}

\* Mutant: any segment with the segmentation id counts, whatever its
\* physical network.
segment_recreated_any_physnet(segments, segmentation_id, physnet) ==
    \E segment \in segments :
        /\ segment.segmentation_id = segmentation_id
        /\ segment.network_type = "vlan"

\* Mutant: the delete handler does not look for a recreated segment.
segment_recreated_never(segments, segmentation_id, physnet) == FALSE

\* for segment in segments: if same id, physnet and type 'vlan': return
segment_recreated(segments, segmentation_id, physnet) ==
    \E segment \in segments :
        /\ segment.segmentation_id = segmentation_id
        /\ segment.physical_network = physnet
        /\ segment.network_type = "vlan"

\* Under the lock: the query for segments still using the VLAN.
delete_network_read(w) ==
    LET r == wk[w]
        segments == get_segments(r.net.segmentation_id)
    IN  /\ r.pc = "locked"
        /\ r.op = "delete_network"
        /\ IF segment_recreated(segments, r.net.segmentation_id, r.net.physical_network)
           THEN /\ wk' = [wk EXCEPT ![w] = Return(r, "")]
                /\ lock' = LeaveLock(w, r.sw, "")
           ELSE /\ wk' = [wk EXCEPT ![w].pc = "apply", ![w].segments = segments]
                /\ lock' = Held(w, r.sw)
        /\ UNCHANGED <<networks, ports, trunks, vlans, portcfg, nevents, scope>>

\* self.net_runr.delete_vlan(host_name, segmentation_id)
delete_network_apply(w) ==
    LET r == wk[w]
        v == r.net.segmentation_id
    IN  /\ r.pc = "apply"
        /\ r.op = "delete_network"
        /\ \E ok \in Results :
             LET r2 == [r EXCEPT !.calls = Append(@, Call("delete_vlan", r.sw, "", v, <<>>, ok))]
             IN  /\ vlans' = IF ok THEN delete_vlan(r.sw, v) ELSE vlans
                 /\ wk' = [wk EXCEPT ![w] =
                             IF ok THEN delete_network_next(r2, r.todo)
                                   ELSE Return(r2, NetworkingAnsibleMechException)]
        /\ lock' = LeaveLock(w, r.sw, wk'[w].err)
        /\ UNCHANGED <<networks, ports, trunks, portcfg, nevents, scope>>

---------------------------------------------------------------------------
(* Control plane: segments of an existing network                          *)

\* The control plane replaces or removes the segment of a network; no hook
\* of this driver runs for it.
update_segments(n, segs) ==
    /\ nevents < MaxEvents
    /\ networks[n].exists
    /\ networks[n].segments # segs
    /\ \A p \in DOMAIN ports : ports[p].network_id # n
    /\ \A i \in 1..Len(segs) : SegmentFree(segs[i])
    /\ networks' = [networks EXCEPT ![n].segments = segs]
    /\ nevents' = nevents + 1
    /\ UNCHANGED <<ports, trunks, lock, wk, vlans, portcfg, scope>>

---------------------------------------------------------------------------
(* Port State Reconciler: the decisions of ensure_port and _set_port_state *)

NoTrunk == [exists |-> FALSE, sub_ports |-> <<>>]
NoCall == Call("", "", "", 0, <<>>, TRUE)
Outcome(err, call) == [err |-> err, call |-> call]

\* Mutant: only the sub-port added last is sent.
trunked_vlans_last(trunk) ==
    IF trunk.sub_ports = <<>> THEN <<>> ELSE <<Last(trunk.sub_ports)>>

\* trunked_vlans = [sp.segmentation_id for sp in trunk.sub_ports]
trunked_vlans(trunk) == trunk.sub_ports

\* Mutant: the trunk of the port is not looked at.
set_port_state_call_no_trunk(port, trunk, segmentation_id, switch_name, switch_port) ==
    IF is_port_normal(port)
    THEN Call("add_trunk_vlan", switch_name, switch_port, segmentation_id, <<>>, TRUE)
    ELSE Call("conf_access_port", switch_name, switch_port, segmentation_id, <<>>, TRUE)

\* Mutant: a switch port that is already configured is always set up as a
\* trunk, whatever the store says.
set_port_state_call_by_device(port, trunk, segmentation_id, switch_name, switch_port) ==
    IF trunk.exists \/ portcfg[<<switch_name, switch_port>>].mode # "none"
    THEN Call("conf_trunk_port", switch_name, switch_port, segmentation_id,
              trunk.sub_ports, TRUE)
    ELSE IF is_port_normal(port)
    THEN Call("add_trunk_vlan", switch_name, switch_port, segmentation_id, <<>>, TRUE)
    ELSE Call("conf_access_port", switch_name, switch_port, segmentation_id, <<>>, TRUE)

\* The device call _set_port_state chooses once its checks passed.
set_port_state_call(port, trunk, segmentation_id, switch_name, switch_port) ==
    IF trunk.exists
    THEN Call("conf_trunk_port", switch_name, switch_port, segmentation_id,
              trunked_vlans(trunk), TRUE)
    ELSE IF is_port_normal(port)
    THEN Call("add_trunk_vlan", switch_name, switch_port, segmentation_id, <<>>, TRUE)
    ELSE Call("conf_access_port", switch_name, switch_port, segmentation_id, <<>>, TRUE)

\* Mutant: the inventory is asked before the switch name is tested.
set_port_state_msg_inventory_first(port, switch_name, switch_port, isobj) ==
    IF IsNone(port) THEN "Null port passed to set_port_state"
    ELSE IF ~has_host(switch_name) THEN "couldnt find switch_name in inventory"
    ELSE IF switch_name = "" \/ switch_port = ""
         THEN "couldnt find switch_name or switch port to set port state"
    ELSE IF ~networks[port.network_id].exists
         THEN (IF isobj THEN "couldnt find network for port" ELSE "'dict' object has no attribute 'id'")
    ELSE ""

\* The checks of _set_port_state: the message of the exception it raises,
\* "" when the checks pass.  The message of the last check is built with
\* port.id: for a Port object (isobj) the MechanismDriverError is raised, for
\* a port dict the attribute lookup raises AttributeError before it.
set_port_state_msg(port, switch_name, switch_port, isobj) ==
    IF IsNone(port) THEN "Null port passed to set_port_state"
    ELSE IF switch_name = "" \/ switch_port = ""
         THEN "couldnt find switch_name or switch port to set port state"
    ELSE IF ~has_host(switch_name) THEN "couldnt find switch_name in inventory"
    ELSE IF ~networks[port.network_id].exists
         THEN (IF isobj THEN "couldnt find network for port" ELSE "'dict' object has no attribute 'id'")
    ELSE ""

\* _set_port_state up to the device call: the error it raises, or the call.
\* network.segments[0] on a network without segments raises IndexError.
set_port_state(port, switch_name, switch_port, isobj) ==
    IF set_port_state_msg(port, switch_name, switch_port, isobj)
          = "'dict' object has no attribute 'id'"
    THEN Outcome("AttributeError", NoCall)
    ELSE IF set_port_state_msg(port, switch_name, switch_port, isobj) # ""
    THEN Outcome(MechanismDriverError, NoCall)
    ELSE IF networks[port.network_id].segments = <<>> THEN Outcome("IndexError", NoCall)
    ELSE Outcome("", set_port_state_call(port, trunks[port.id],
                        networks[port.network_id].segments[1].segmentation_id,
                        switch_name, switch_port))

\* Port.get_objects(db, network_id=..., device_owner=c.COMPUTE_NOVA)
compute_ports_on(network_id) ==
    {q \in DOMAIN ports : /\ ~IsNone(ports[q])
                          /\ ports[q].network_id = network_id
                          /\ ports[q].device_owner = COMPUTE_NOVA}

\* Mutant: the binding host of the other port is not compared.
active_port_filter_host_any(port, db_port) == db_port.id # port.id

\* active_port_filter for a port that is not of type direct
active_port_filter_host(port, db_port) ==
    db_port.host = port.host /\ db_port.id # port.id

\* active_port_filter for a port of type direct: the other port is resolved
\* through get_switch_meta, with its network as the store has it now, and
\* its first mapping is compared.  Network.get_object gives None for a
\* network that is gone; get_switch_meta makes {} of it and its segmentation
\* id is '', written -1, which differs from None, written 0.
active_port_filter_direct(port, db_port, switch_port, segmentation_id) ==
    LET db_network == IF networks[db_port.network_id].exists
                      THEN ProviderDict(db_port.network_id)
                      ELSE [NoNetDict EXCEPT !.segmentation_id = -1]
        meta == get_switch_meta(db_port, db_network, TRUE)
    IN  /\ meta.mappings[1][2] = switch_port
        /\ meta.segmentation_id = segmentation_id
        /\ db_port.id # port.id

\* The exception active_port_filter raises on one other port, "" when it
\* returns: for a port of type direct, that of _build_sriov_host_id on the
\* port itself (no pci_slot), then the exception of get_switch_meta when the
\* other port cannot be resolved, IndexError (mappings[0] of an empty list)
\* when it has no mapping.
active_port_filter_error(port, db_port) ==
    LET db_network == IF networks[db_port.network_id].exists
                      THEN ProviderDict(db_port.network_id)
                      ELSE [NoNetDict EXCEPT !.segmentation_id = -1]
        meta == get_switch_meta(db_port, db_network, TRUE)
    IN  IF ~is_port_direct(port) THEN ""
        ELSE IF build_sriov_host_id(port, port.host) = NoKey THEN "AttributeError"
        ELSE IF meta.err # "" THEN meta.err
        ELSE IF meta.mappings = <<>> THEN "IndexError"
        ELSE ""

\* active_ports = list(filter(active_port_filter, active_ports)) for a port
\* that is not of type direct: the filter reads nothing but the ports of the
\* query.
active_ports(port) ==
    {q \in compute_ports_on(port.network_id) : active_port_filter_host(port, ports[q])}

\* Mutant: a port with the MAC counts whether or not it has link information.
is_deleted_port_in_use_no_lli(physnet, port) ==
    /\ networks[port.network_id].exists
    /\ \E i \in 1..Len(networks[port.network_id].segments) :
          LET seg == networks[port.network_id].segments[i]
          IN  seg.physical_network = physnet /\ seg.network_type = "vlan"

\* _is_deleted_port_in_use, one turn of its loop "for port in mports": the
\* port, as the query for the MAC address returned it, has link information
\* and its network, read from the store now, has a vlan segment on physnet.
is_deleted_port_in_use(physnet, port) ==
    /\ get_port_lli(port, TRUE) # <<>>
    /\ networks[port.network_id].exists
    /\ \E i \in 1..Len(networks[port.network_id].segments) :
          LET seg == networks[port.network_id].segments[i]
          IN  seg.physical_network = physnet /\ seg.network_type = "vlan"

\* Mutant: the link information is taken from the caller's port.
ensure_port_branch_snapshot(port, updated_port, delete) ==
    IF is_port_normal(port) THEN (IF delete THEN "vm_delete" ELSE "vm_set")
    ELSE IF get_port_lli(port, FALSE) # <<>> THEN "bm_set"
    ELSE "bm_gone"

\* Mutant: a delete call of a bare-metal port goes to the removal branch.
ensure_port_branch_delete_first(port, updated_port, delete) ==
    IF is_port_normal(port) THEN (IF delete THEN "vm_delete" ELSE "vm_set")
    ELSE IF delete THEN "bm_gone"
    ELSE IF get_port_lli(updated_port, TRUE) # <<>> THEN "bm_set"
    ELSE "bm_gone"

\* Which branch of ensure_port the call takes, from the caller's port and
\* the port re-read under the lock.
ensure_port_branch(port, updated_port, delete) ==
    IF is_port_normal(port) THEN (IF delete THEN "vm_delete" ELSE "vm_set")
    ELSE IF get_port_lli(updated_port, TRUE) # <<>> THEN "bm_set"
    ELSE "bm_gone"

\* The effect of a successful device call on the switch.
DevicePorts(c) ==
    CASE c.op = "conf_trunk_port" -> conf_trunk_port(c.sw, c.port, c.vlan, c.members)
      [] c.op = "conf_access_port" -> conf_access_port(c.sw, c.port, c.vlan)
      [] c.op = "add_trunk_vlan" -> add_trunk_vlan(c.sw, c.port, c.vlan)
      [] c.op = "delete_trunk_vlan" -> delete_trunk_vlan(c.sw, c.port, c.vlan)
      [] c.op = "delete_port" -> delete_port(c.sw, c.port)
      [] OTHER -> portcfg

---------------------------------------------------------------------------
(* Ports the control plane can create (unbound, as first committed)        *)

VmPort(id, mac, n, host, vnic, slot) ==
    [id |-> id, mac_address |-> mac, device_owner |-> COMPUTE_NOVA, network_id |-> n,
     host |-> host, vnic_type |-> vnic, vif_type |-> VIF_TYPE_UNBOUND, lli |-> <<>>,
     pci_slot |-> slot]
BmPort(id, mac, n, lli) ==
    [id |-> id, mac_address |-> mac, device_owner |-> "baremetal:none", network_id |-> n,
     host |-> <<"n", "1">>, vnic_type |-> VNIC_BAREMETAL, vif_type |-> VIF_TYPE_UNBOUND,
     lli |-> lli, pci_slot |-> NoSlot]

PortIds == {"P1", "P2", "P3", "P4", "P5", "P6", "Q1", "B1", "B2", "B3", "B4", "B5", "B6", "B7",
            "B8", "D1", "D2", "D3", "D4", "D5", "D6", "M1", "M2"}

\* The PCI address (domain:bus:device.function) of passthrough port D1; the
\* other ports differ from it in one digit.
Pci0300_0 == <<"0", "0", "0", "0", ":", "0", "3", ":", "0", "0", ".", "0">>

PortSpec(p) ==
    CASE p = "P1" -> VmPort("P1", "fa:16:3e:00:00:01", "N1", H1, VNIC_NORMAL, NoSlot)
      \* a compute port with a VNIC type the driver does not support
      [] p = "M1" -> VmPort("M1", "fa:16:3e:00:00:11", "N1", H1, VNIC_MACVTAP, NoSlot)
      \* a port with an unsupported VNIC type, not owned by compute, without
      \* link information
      [] p = "M2" -> [BmPort("M2", "52:54:00:00:00:12", "N1", <<>>)
                        EXCEPT !.vnic_type = VNIC_MACVTAP]
      [] p = "P2" -> VmPort("P2", "fa:16:3e:00:00:02", "N1", H1, VNIC_NORMAL, NoSlot)
      [] p = "P3" -> VmPort("P3", "fa:16:3e:00:00:03", "N1", H2, VNIC_NORMAL, NoSlot)
      [] p = "P4" -> VmPort("P4", "fa:16:3e:00:00:04", "N2", H1, VNIC_NORMAL, NoSlot)
      [] p = "B1" -> BmPort("B1", "52:54:00:00:00:01", "N1",
                            <<LinkInfo("SW2", <<>>, "Eth1/1")>>)
      [] p = "B2" -> BmPort("B2", "52:54:00:00:00:01", "N2",
                            <<LinkInfo("", SwitchMac02, "Eth1/1")>>)
      \* passthrough ports of host h1
      [] p = "D1" -> VmPort("D1", "fa:16:3e:00:01:01", "N1", H1, VNIC_DIRECT, Pci0300_0)
      [] p = "D2" -> VmPort("D2", "fa:16:3e:00:01:02", "N1", H1, VNIC_DIRECT,
                            [Pci0300_0 EXCEPT ![12] = "1"])
      [] p = "D3" -> VmPort("D3", "fa:16:3e:00:01:03", "N1", H1, VNIC_DIRECT,
                            [Pci0300_0 EXCEPT ![7] = "4"])
      [] p = "D4" -> VmPort("D4", "fa:16:3e:00:01:04", "N1", H1, VNIC_DIRECT,
                            [Pci0300_0 EXCEPT ![10] = "1"])
      [] p = "D5" -> VmPort("D5", "fa:16:3e:00:01:05", "N1", H1, VNIC_DIRECT,
                            [Pci0300_0 EXCEPT ![4] = "1"])
      \* a passthrough port whose binding profile has no pci_slot
      [] p = "D6" -> VmPort("D6", "fa:16:3e:00:01:06", "N1", H1, VNIC_DIRECT, NoSlot)
      \* a compute port on a host without entry in the mapping table
      [] p = "P5" -> VmPort("P5", "fa:16:3e:00:00:05", "N1", H3, VNIC_NORMAL, NoSlot)
      \* a port of VNIC type normal that no compute instance owns
      \* a compute port on a host whose second switch is not in the inventory
      [] p = "P6" -> VmPort("P6", "fa:16:3e:00:00:07", "N1", H4, VNIC_NORMAL, NoSlot)
      [] p = "Q1" -> [VmPort("Q1", "fa:16:3e:00:00:06", "N1", H3, VNIC_NORMAL, NoSlot)
                        EXCEPT !.device_owner = "network:dhcp"]
      \* bare-metal ports without link information
      [] p = "B3" -> BmPort("B3", "52:54:00:00:00:03", "N1", <<>>)
      [] p = "B5" -> [BmPort("B5", "52:54:00:00:00:05", "N2", <<>>)
                        EXCEPT !.device_owner = COMPUTE_NOVA]
      [] p = "B8" -> [BmPort("B8", "52:54:00:00:00:08", "N1", <<>>)
                        EXCEPT !.device_owner = COMPUTE_NOVA]
      \* a bare-metal port on a switch that is not in the inventory
      [] p = "B4" -> BmPort("B4", "52:54:00:00:00:04", "N1",
                            <<LinkInfo("SWX", <<>>, "Eth1/1")>>)
      \* a bare-metal port whose link information names no switch port
      [] p = "B7" -> BmPort("B7", "52:54:00:00:00:07", "N1",
                            <<LinkInfo("SW1", <<>>, "")>>)
      \* a bare-metal port whose link information names no switch (its
      \* switch_info is the empty string and its switch_id is in no map)
      [] p = "B6" -> BmPort("B6", "52:54:00:00:00:06", "N1",
                            <<LinkInfo("", [SwitchMac02 EXCEPT ![17] = "9"], "Eth1/1")>>)

SubVlans == {60, 70}

---------------------------------------------------------------------------
(* Port hooks: update_port_postcommit, delete_port_postcommit, bind_port   *)

\* Mutant: ensure_port does not look the switch up before it takes the lock.
ensure_next_unchecked(r, mappings) ==
    IF mappings = <<>> THEN Return(r, "")
    ELSE LET r1 == IF r.op = "bind_port" THEN [r EXCEPT !.prov = Append(@, "add")] ELSE r
         IN  [r1 EXCEPT !.pc = "acquire", !.sw = mappings[1][1],
                        !.swport = mappings[1][2], !.todo = Tail(mappings)]

\* for switch_name, switch_port in mappings: ... self.ensure_port(...)
\* up to the point where ensure_port waits for the lock.  bind_port adds a
\* provisioning component before each call; ensure_port raises when the
\* switch is not in the inventory.
ensure_next(r, mappings) ==
    IF mappings = <<>> THEN Return(r, "")
    ELSE LET r1 == IF r.op = "bind_port" THEN [r EXCEPT !.prov = Append(@, "add")] ELSE r
         IN  IF ~has_host(mappings[1][1])
             THEN Return(r1, MechanismDriverError)
             ELSE [r1 EXCEPT !.pc = "acquire", !.sw = mappings[1][1],
                             !.swport = mappings[1][2], !.todo = Tail(mappings)]

\* mappings, segmentation_id = self.get_switch_meta(port, network), then the loop
start_ensure(r) ==
    LET meta == get_switch_meta(r.port, r.net, FALSE)
    IN  IF meta.err # "" THEN Return(r, meta.err) ELSE ensure_next(r, meta.mappings)

\* Mutant: the binding of the current port is looked at before its owner.
update_port_branch_bound_first(current, original) ==
    IF is_port_bound(current) THEN "b"
    ELSE IF is_port_normal(current) THEN "a"
    ELSE IF is_port_bound(original) THEN "c"
    ELSE "d"

\* The branch update_port_postcommit takes.
update_port_branch(current, original) ==
    IF is_port_normal(current) THEN "a"
    ELSE IF is_port_bound(current) THEN "b"
    ELSE IF is_port_bound(original) THEN "c"
    ELSE "d"

\* The port as the control plane changes it before the update hook runs.
Changed(p, change) ==
    CASE change = "create" -> [PortSpec(p) EXCEPT !.vif_type = VIF_TYPE_OVS]
      [] change = "touch" -> ports[p]
      [] change = "unbind" -> [ports[p] EXCEPT !.vif_type = VIF_TYPE_UNBOUND,
                                               !.host = NoHost, !.lli = <<>>]
      [] change = "rehost" -> [ports[p] EXCEPT !.host = PortSpec(p).host,
                                               !.lli = PortSpec(p).lli]

\* The control plane commits an update of port p (its creation with the OVS
\* binding, an unbind, the host and profile given again to an unbound port,
\* or a change of no interest), then calls the hook.
update_port_postcommit(w, p, change) ==
    LET original == IF change = "create" THEN PortSpec(p) ELSE ports[p]
        current == Changed(p, change)
        base == [Idle EXCEPT !.op = "update_port", !.cur = current, !.orig = original,
                             !.net = ProviderDict(current.network_id)]
        branch == update_port_branch(current, original)
    IN  /\ Free(w)
        /\ nevents < MaxEvents
        /\ p \in scope
        /\ IF change = "create"
           THEN IsNone(ports[p]) /\ is_port_normal(PortSpec(p))
           ELSE ~IsNone(ports[p])
        /\ change = "unbind" => ports[p].vif_type # VIF_TYPE_UNBOUND
        /\ change = "rehost" => (ports[p].vif_type = VIF_TYPE_UNBOUND /\ ports[p].host = NoHost)
        /\ networks[current.network_id].exists
        /\ ports' = [ports EXCEPT ![p] = current]
        /\ wk' = [wk EXCEPT ![w] =
                    CASE branch = "a" -> start_ensure([base EXCEPT !.port = current])
                      [] branch = "b" -> Return([base EXCEPT !.prov = <<"complete">>], "")
                      [] branch = "c" -> start_ensure([base EXCEPT !.port = original])
                      [] OTHER -> Return(base, "")]
        /\ nevents' = nevents + 1
        /\ UNCHANGED <<networks, trunks, lock, vlans, portcfg, scope>>

\* The control plane deletes port p (it refuses for the parent of a trunk),
\* then calls the hook with the port as it was.  The id of a deleted port is
\* not used again.
delete_port_postcommit(w, p) ==
    LET current == ports[p]
        base == [Idle EXCEPT !.op = "delete_port", !.cur = current, !.port = current,
                             !.net = ProviderDict(current.network_id)]
    IN  /\ Free(w)
        /\ nevents < MaxEvents
        /\ p \in scope
        /\ ~IsNone(ports[p])
        /\ ~trunks[p].exists
        /\ ports' = [ports EXCEPT ![p] = NoPort]
        /\ scope' = scope \ {p}
        /\ wk' = [wk EXCEPT ![w] =
                    IF is_port_bound(current)
                    THEN start_ensure([base EXCEPT !.del = TRUE])
                    ELSE Return(base, "")]
        /\ nevents' = nevents + 1
        /\ UNCHANGED <<networks, trunks, lock, vlans, portcfg>>

\* The control plane has port p unbound with a host (creating it when it
\* does not exist) and asks the driver to bind it.
bind_port(w, p) ==
    LET port == IF IsNone(ports[p]) THEN PortSpec(p) ELSE ports[p]
        base == [Idle EXCEPT !.op = "bind_port", !.cur = port, !.port = port,
                             !.net = ProviderDict(port.network_id),
                             !.segs = networks[port.network_id].segments]
    IN  /\ Free(w)
        /\ nevents < MaxEvents
        /\ p \in scope
        /\ port.vif_type = VIF_TYPE_UNBOUND
        /\ port.host # NoHost
        /\ networks[port.network_id].exists
        /\ ports' = [ports EXCEPT ![p] = port]
        /\ wk' = [wk EXCEPT ![w] =
                    IF ~is_port_supported(port) THEN Return(base, "")
                    ELSE start_ensure(base)]
        /\ nevents' = nevents + 1
        /\ UNCHANGED <<networks, trunks, lock, vlans, portcfg, scope>>

\* ensure_port under the lock: updated_port = Port.get_object(db, id=port['id'])
\* and, for the deletion of a compute port, the query for the other compute
\* ports of its network.  For a port that is not of type direct the filter
\* works on the result of the query alone; for a port of type direct it
\* reads the network of each port, in steps of their own.
ensure_port_read(w) ==
    LET r == wk[w]
        updated_port == ports[r.port.id]
        branch == ensure_port_branch(r.port, updated_port, r.del)
        direct == branch = "vm_delete" /\ is_port_direct(r.port)
        query == {ports[q] : q \in compute_ports_on(r.port.network_id)}
    IN  /\ r.pc = "locked"
        /\ r.op \in {"update_port", "delete_port", "bind_port"}
        /\ wk' = [wk EXCEPT ![w].pc = IF direct /\ query # {} THEN "filter" ELSE "apply",
                             ![w].updated = updated_port,
                             ![w].aports = IF direct THEN query ELSE {},
                             ![w].active = IF branch = "vm_delete" /\ ~direct
                                           THEN active_ports(r.port) ELSE {}]
        /\ lock' = Held(w, r.sw)
        /\ UNCHANGED <<networks, ports, trunks, vlans, portcfg, nevents, scope>>

\* list(filter(active_port_filter, active_ports)) for a port of type direct,
\* a port of the query a step (the query does not order its result): the
\* filter reads the network of the port and resolves the port; an exception
\* ends ensure_port and releases the lock.
active_port_filter_next(w) ==
    LET r == wk[w]
    IN  /\ r.pc = "filter"
        /\ \E db_port \in r.aports :
              LET ferr == active_port_filter_error(r.port, db_port)
                  rest == r.aports \ {db_port}
              IN  IF ferr # ""
                  THEN /\ wk' = [wk EXCEPT ![w] = Return(r, ferr)]
                       /\ lock' = LeaveLock(w, r.sw, ferr)
                  ELSE /\ wk' = [wk EXCEPT
                                 ![w].pc = IF rest = {} THEN "apply" ELSE "filter",
                                 ![w].aports = rest,
                                 ![w].active =
                                    IF active_port_filter_direct(r.port, db_port, r.swport,
                                                                 r.net.segmentation_id)
                                    THEN @ \cup {db_port.id} ELSE @]
                       /\ lock' = Held(w, r.sw)
        /\ UNCHANGED <<networks, ports, trunks, vlans, portcfg, nevents, scope>>

\* What ensure_port does after its reads: the error it raises or the device
\* call it makes (NoCall when it returns without one).
ensure_port_outcome(r) ==
    LET branch == ensure_port_branch(r.port, r.updated, r.del)
    IN  CASE branch = "vm_delete" ->
               IF r.active = {}
               THEN Outcome("", Call("delete_trunk_vlan", r.sw, r.swport,
                                     r.net.segmentation_id, <<>>, TRUE))
               ELSE Outcome("", NoCall)
          [] branch = "vm_set" -> set_port_state(r.port, r.sw, r.swport, FALSE)
          [] branch = "bm_set" -> set_port_state(r.updated, r.sw, r.swport, TRUE)
          \* _delete_switch_port, once _is_deleted_port_in_use has returned False
          [] OTHER -> Outcome("", Call("delete_port", r.sw, r.swport, 0, <<>>, TRUE))

\* Mutant: the device's exception goes up as it is.
device_error_unwrapped(c) == "Exception"

\* The exception a failed device call ends the hook with: delete_trunk_vlan
\* is called outside any try block, the others are re-raised wrapped.
device_error(c) ==
    IF c.op = "delete_trunk_vlan" THEN "Exception" ELSE NetworkingAnsibleMechException

\* Mutant: the binding is set whatever branch ensure_port has taken.
set_binding_any_branch(r, branch) ==
    IF r.segs # <<>>
    THEN [r EXCEPT !.bound = Append(@, [segment |-> r.segs[1],
                                        vif_type |-> VIF_TYPE_OTHER])]
    ELSE r

\* Mutant: the binding is also set after the state of a compute port is set.
set_binding_vm_too(r, branch) ==
    IF branch \in {"bm_set", "vm_set"} /\ r.segs # <<>>
    THEN [r EXCEPT !.bound = Append(@, [segment |-> r.segs[1],
                                        vif_type |-> VIF_TYPE_OTHER])]
    ELSE r

\* port_context.set_binding(segments[0][ml2api.ID], VIF_TYPE_OTHER, {}) after
\* a successful _set_port_state of a port with link information.
set_binding(r, branch) ==
    IF branch = "bm_set" /\ r.segs # <<>>
    THEN [r EXCEPT !.bound = Append(@, [segment |-> r.segs[1],
                                        vif_type |-> VIF_TYPE_OTHER])]
    ELSE r

\* What becomes of the binding bind_port has set on its context: the caller
\* of bind_port writes it to the store, unless the port was changed or
\* deleted meanwhile, and then the binding is dropped.
commit_binding(r) ==
    IF ports[r.port.id] = r.port
    THEN [ports EXCEPT ![r.port.id].vif_type = Last(r.bound).vif_type]
    ELSE ports

\* bind_port has returned with a binding set: its caller commits the
\* binding, after the driver has left ensure_port and released the lock.
commit_port_binding(w) ==
    /\ wk[w].pc = "done" /\ wk[w].pending
    /\ ports' = commit_binding(wk[w])
    /\ wk' = [wk EXCEPT ![w].pending = FALSE]
    /\ UNCHANGED <<networks, trunks, lock, vlans, portcfg, nevents, scope>>

\* ensure_port after its reads: the branch's checks, the device call, the
\* binding, and the release of the lock; then the next mapping.  For a port
\* found gone the test of _is_deleted_port_in_use comes first: this step is
\* its mports = Port.get_objects(db, mac_address=mac), the loop over the
\* ports follows in steps of its own.
ensure_port_apply(w) ==
    LET r == wk[w]
        branch == ensure_port_branch(r.port, r.updated, r.del)
        out == ensure_port_outcome(r)
    IN  /\ r.pc = "apply"
        /\ r.op \in {"update_port", "delete_port", "bind_port"}
        /\ IF branch = "bm_gone"
           THEN /\ wk' = [wk EXCEPT ![w].pc = "mid",
                                     ![w].mports =
                                        {ports[q] : q \in {x \in DOMAIN ports :
                                            /\ ~IsNone(ports[x])
                                            /\ ports[x].mac_address = r.port.mac_address}}]
                /\ portcfg' = portcfg
           ELSE \E ok \in Results :
             LET c == [out.call EXCEPT !.ok = ok]
                 r2 == IF out.err = "" /\ out.call # NoCall
                       THEN [r EXCEPT !.calls = Append(@, c)] ELSE r
                 r3 == IF out.err # "" THEN Return(r2, out.err)
                       ELSE IF out.call # NoCall /\ ~ok THEN Return(r2, device_error(c))
                       ELSE ensure_next(set_binding(r2, branch), r.todo)
             IN  /\ (out.err # "" \/ out.call = NoCall) => ok
                 /\ portcfg' = IF out.err = "" /\ out.call # NoCall /\ ok
                               THEN DevicePorts(c) ELSE portcfg
                 /\ wk' = [wk EXCEPT ![w] = r3]
        /\ lock' = IF branch = "bm_gone" THEN Held(w, r.sw)
                   ELSE LeaveLock(w, r.sw, wk'[w].err)
        /\ UNCHANGED <<networks, ports, trunks, vlans, nevents, scope>>

\* The loop of _is_deleted_port_in_use, a port a step, each reading the
\* network of its port (the query does not order the ports): a port in use
\* ends ensure_port without call; when no port is left,
\* _delete_switch_port is called.  Then the lock is released and the next
\* mapping follows.
is_deleted_port_in_use_next(w) ==
    LET r == wk[w]
        out == ensure_port_outcome(r)
        r1 == [r EXCEPT !.mports = {}]
    IN  /\ r.pc = "mid"
        /\ IF r.mports # {}
           THEN \E port \in r.mports :
                  IF is_deleted_port_in_use(r.net.physical_network, port)
                  THEN /\ wk' = [wk EXCEPT ![w] =
                                    ensure_next(set_binding(r1, "bm_gone"), r.todo)]
                       /\ lock' = LeaveLock(w, r.sw, wk'[w].err)
                       /\ portcfg' = portcfg
                  ELSE /\ wk' = [wk EXCEPT ![w].mports = @ \ {port}]
                       /\ lock' = Held(w, r.sw)
                       /\ portcfg' = portcfg
           ELSE \E ok \in Results :
                  LET c == [out.call EXCEPT !.ok = ok]
                      r2 == [r1 EXCEPT !.calls = Append(@, c)]
                  IN  /\ portcfg' = IF ok THEN DevicePorts(c) ELSE portcfg
                      /\ wk' = [wk EXCEPT ![w] =
                                   IF ok THEN ensure_next(set_binding(r2, "bm_gone"), r.todo)
                                   ELSE Return(r2, device_error(c))]
                      /\ lock' = LeaveLock(w, r.sw, wk'[w].err)
        /\ UNCHANGED <<networks, ports, trunks, vlans, nevents, scope>>

---------------------------------------------------------------------------
(* Trunks: sub-port changes and ensure_subports                            *)

TrunkParents == {"P1", "B1", "B3", "B4", "B6", "B7"}

\* The trunk driver calls ensure_subports(port_id, db) after the change.
ensure_subports(w, p) ==
    [wk EXCEPT ![w] = [Idle EXCEPT !.op = "ensure_subports", !.pc = "start",
                                   !.port_id = p]]

\* The control plane adds sub-port VLAN v to the trunk of parent port p
\* (creating the trunk with it when there is none).
subports_added(w, p, v) ==
    /\ Free(w)
    /\ nevents < MaxEvents
    /\ p \in scope \cap TrunkParents
    /\ ~IsNone(ports[p])
    /\ v \notin SeqToSet(trunks[p].sub_ports)
    /\ trunks' = [trunks EXCEPT ![p] = [exists |-> TRUE, sub_ports |-> Append(@.sub_ports, v)]]
    /\ wk' = ensure_subports(w, p)
    /\ nevents' = nevents + 1
    /\ UNCHANGED <<networks, ports, lock, vlans, portcfg, scope>>

RECURSIVE Without(_, _)
Without(s, v) ==
    IF s = <<>> THEN <<>>
    ELSE IF Head(s) = v THEN Without(Tail(s), v)
    ELSE <<Head(s)>> \o Without(Tail(s), v)

\* The control plane removes sub-port VLAN v from the trunk of port p.
subports_deleted(w, p, v) ==
    /\ Free(w)
    /\ nevents < MaxEvents
    /\ p \in scope \cap TrunkParents
    /\ trunks[p].exists
    /\ v \in SeqToSet(trunks[p].sub_ports)
    /\ trunks' = [trunks EXCEPT ![p].sub_ports = Without(@, v)]
    /\ wk' = ensure_subports(w, p)
    /\ nevents' = nevents + 1
    /\ UNCHANGED <<networks, ports, lock, vlans, portcfg, scope>>

\* The control plane deletes the trunk of port p; the port can then be
\* deleted.
trunk_deleted(p) ==
    /\ nevents < MaxEvents
    /\ trunks[p].exists
    /\ trunks' = [trunks EXCEPT ![p] = NoTrunk]
    /\ nevents' = nevents + 1
    /\ UNCHANGED <<networks, ports, lock, wk, vlans, portcfg, scope>>

\* ensure_subports before the lock: the first read of the port and the
\* resolution of its switch.
ensure_subports_start(w) ==
    LET r == wk[w]
        port == ports[r.port_id]
        meta == get_switch_meta(port, NoNetDict, TRUE)
    IN  /\ r.pc = "start"
        /\ r.op = "ensure_subports"
        /\ wk' = [wk EXCEPT ![w] =
                    IF IsNone(port) THEN Return(r, "")
                    ELSE IF meta.err # "" THEN Return([r EXCEPT !.port = port], meta.err)
                    ELSE IF meta.mappings = <<>> THEN Return([r EXCEPT !.port = port], "")
                    ELSE [r EXCEPT !.port = port, !.pc = "acquire",
                                   !.sw = meta.mappings[1][1],
                                   !.swport = meta.mappings[1][2],
                                   !.todo = Tail(meta.mappings)]]
        /\ UNCHANGED <<networks, ports, trunks, lock, vlans, portcfg, nevents, scope>>

\* Mutant: the port read before the lock is used again.
subports_updated_port_stale(r) == r.port

\* updated_port = Port.get_object(db, id=port_id), under the lock
subports_updated_port(r) == ports[r.port_id]

\* ensure_subports under the lock: the re-read of the port
ensure_subports_read(w) ==
    LET r == wk[w]
        updated_port == subports_updated_port(r)
    IN  /\ r.pc = "locked"
        /\ r.op = "ensure_subports"
        /\ IF ~IsNone(updated_port)
           THEN /\ wk' = [wk EXCEPT ![w].pc = "apply", ![w].updated = updated_port]
                /\ lock' = Held(w, r.sw)
           ELSE /\ wk' = [wk EXCEPT ![w] = Return(r, "")]
                /\ lock' = LeaveLock(w, r.sw, "")
        /\ UNCHANGED <<networks, ports, trunks, vlans, portcfg, nevents, scope>>

\* self._set_port_state(updated_port, db, switch_name, switch_port); return
ensure_subports_apply(w) ==
    LET r == wk[w]
        out == set_port_state(r.updated, r.sw, r.swport, TRUE)
    IN  /\ r.pc = "apply"
        /\ r.op = "ensure_subports"
        /\ \E ok \in Results :
             LET c == [out.call EXCEPT !.ok = ok]
                 r2 == IF out.err = "" THEN [r EXCEPT !.calls = Append(@, c)] ELSE r
             IN  /\ out.err # "" => ok
                 /\ portcfg' = IF out.err = "" /\ ok THEN DevicePorts(c) ELSE portcfg
                 /\ wk' = [wk EXCEPT ![w] =
                             IF out.err # "" THEN Return(r2, out.err)
                             ELSE IF ~ok THEN Return(r2, NetworkingAnsibleMechException)
                             ELSE Return(r2, "")]
        /\ lock' = LeaveLock(w, r.sw, wk'[w].err)
        /\ UNCHANGED <<networks, ports, trunks, vlans, nevents, scope>>

---------------------------------------------------------------------------
(* Specification of the network lifecycle alone                            *)

SwPorts == (Inventory \cup {"SWX"}) \X SwitchPorts

InitCommon ==
    /\ lock = [s \in SwitchNames \cup {""} |-> NoOne]
    /\ wk = [w \in Workers |-> Idle]
    /\ portcfg = [sp \in SwPorts |-> NoCfg]
    /\ nevents = 0

InitNet ==
    /\ InitCommon
    /\ vlans = [s \in Inventory |-> {}]
    /\ networks = [n \in NetIds |-> NoNet]
    /\ ports = [p \in PortIds |-> NoPort]
    /\ trunks = [p \in PortIds |-> NoTrunk]
    /\ scope = {}

NextNet ==
    \/ \E w \in Workers, n \in NetIds, seg \in SegChoices :
            create_network_postcommit(w, n, seg)
    \/ \E w \in Workers, n \in NetIds : delete_network_postcommit(w, n)
    \/ \E n \in NetIds, segs \in {<<>>} \cup {<<s>> : s \in SegChoices} : update_segments(n, segs)
    \/ \E w \in Workers : get_lock(w)
    \/ \E w \in Workers : create_network_read(w)
    \/ \E w \in Workers : create_network_apply(w)
    \/ \E w \in Workers : delete_network_read(w)
    \/ \E w \in Workers : delete_network_apply(w)

SpecNet == InitNet /\ [][NextNet]_vars

---------------------------------------------------------------------------
(* Specification of the port and trunk hooks, on networks that exist       *)

\* The ports the control plane works with, and the segment of network N2.
PortScopes ==
    {<<{"P1", "P2"}, Segment("vlan", 60, "physnet1")>>,
     <<{"P1", "P3"}, Segment("vlan", 60, "physnet1")>>,
     <<{"P1", "P4"}, Segment("vlan", 50, "physnet2")>>,
     <<{"B1"}, Segment("vlan", 60, "physnet1")>>,
     <<{"B1", "B2"}, Segment("vlan", 60, "physnet1")>>}

\* The networks exist and their VLANs were created on the switches that
\* manage VLANs; no port exists yet.
InitPort ==
    /\ InitCommon
    /\ \E sc \in PortScopes :
        /\ scope = sc[1]
        /\ networks = [n \in NetIds |->
                         IF n = "N1" THEN Net(<<Segment("vlan", 50, "physnet1")>>)
                                     ELSE Net(<<sc[2]>>)]
    /\ vlans = [s \in Inventory |->
                  IF <<"manage_vlans", FALSE>> \notin HostFlags[s]
                  THEN s_ids(networks["N1"]) \cup s_ids(networks["N2"])
                  ELSE {}]
    /\ ports = [p \in PortIds |-> NoPort]
    /\ trunks = [p \in PortIds |-> NoTrunk]

NextPort ==
    \/ \E w \in Workers, p \in PortIds, change \in {"create", "touch", "unbind"} :
            update_port_postcommit(w, p, change)
    \/ \E w \in Workers, p \in PortIds : delete_port_postcommit(w, p)
    \/ \E w \in Workers, p \in PortIds : bind_port(w, p)
    \/ \E w \in Workers : commit_port_binding(w)
    \/ \E w \in Workers, p \in PortIds, v \in SubVlans : subports_added(w, p, v)
    \/ \E w \in Workers, p \in PortIds, v \in SubVlans : subports_deleted(w, p, v)
    \/ \E p \in PortIds : trunk_deleted(p)
    \/ \E w \in Workers : get_lock(w)
    \/ \E w \in Workers : ensure_port_read(w)
    \/ \E w \in Workers : ensure_port_apply(w)
    \/ \E w \in Workers : is_deleted_port_in_use_next(w)
    \/ \E w \in Workers : ensure_subports_start(w)
    \/ \E w \in Workers : ensure_subports_read(w)
    \/ \E w \in Workers : ensure_subports_apply(w)

SpecPort == InitPort /\ [][NextPort]_vars

---------------------------------------------------------------------------
(* Specification of the whole driver: every hook, two API workers          *)

\* Network N1 exists with its VLAN on the switches; network N2 does not
\* exist yet; the control plane works with one VM port or one bare-metal
\* port.
Init ==
    /\ InitCommon
    /\ scope \in {{"P1"}, {"B1"}}
    /\ networks = [n \in NetIds |->
                     IF n = "N1" THEN Net(<<Segment("vlan", 50, "physnet1")>>) ELSE NoNet]
    /\ vlans = [s \in Inventory |-> IF <<"manage_vlans", FALSE>> \notin HostFlags[s] THEN {50} ELSE {}]
    /\ ports = [p \in PortIds |-> NoPort]
    /\ trunks = [p \in PortIds |-> NoTrunk]

Next ==
    \/ \E w \in Workers, n \in NetIds, seg \in SegChoices :
            create_network_postcommit(w, n, seg)
    \/ \E w \in Workers, n \in NetIds : delete_network_postcommit(w, n)
    \/ \E n \in NetIds, segs \in {<<>>} \cup {<<s>> : s \in SegChoices} : update_segments(n, segs)
    \/ \E w \in Workers, p \in PortIds, change \in {"create", "touch", "unbind"} :
            update_port_postcommit(w, p, change)
    \/ \E w \in Workers, p \in PortIds : delete_port_postcommit(w, p)
    \/ \E w \in Workers, p \in PortIds : bind_port(w, p)
    \/ \E w \in Workers : commit_port_binding(w)
    \/ \E w \in Workers, p \in PortIds, v \in SubVlans : subports_added(w, p, v)
    \/ \E w \in Workers, p \in PortIds, v \in SubVlans : subports_deleted(w, p, v)
    \/ \E p \in PortIds : trunk_deleted(p)
    \/ \E w \in Workers : get_lock(w)
    \/ \E w \in Workers : create_network_read(w)
    \/ \E w \in Workers : create_network_apply(w)
    \/ \E w \in Workers : delete_network_read(w)
    \/ \E w \in Workers : delete_network_apply(w)
    \/ \E w \in Workers : ensure_port_read(w)
    \/ \E w \in Workers : ensure_port_apply(w)
    \/ \E w \in Workers : is_deleted_port_in_use_next(w)
    \/ \E w \in Workers : ensure_subports_start(w)
    \/ \E w \in Workers : ensure_subports_read(w)
    \/ \E w \in Workers : ensure_subports_apply(w)

Spec == Init /\ [][Next]_vars

\* A worker thread that can take a step of its hook eventually does: it is
\* granted a lock that stays free, and its reads and device calls return.
Step(w) ==
    \/ get_lock(w)
    \/ create_network_read(w) \/ create_network_apply(w)
    \/ delete_network_read(w) \/ delete_network_apply(w)
    \/ ensure_port_read(w) \/ active_port_filter_next(w)
    \/ ensure_port_apply(w) \/ is_deleted_port_in_use_next(w)
    \/ commit_port_binding(w)
    \/ ensure_subports_start(w) \/ ensure_subports_read(w) \/ ensure_subports_apply(w)

FairSpec == Init /\ [][Next]_vars /\ \A w \in Workers : WF_vars(Step(w))

---------------------------------------------------------------------------
(* Specification of the events of one bare-metal port, reliable device     *)

\* The port of the events is B1; port B2, with the same MAC address and the
\* same switch port, is absent or was bound before (no event is for it).
BoundB2 == [PortSpec("B2") EXCEPT !.vif_type = VIF_TYPE_OTHER]

InitBm ==
    /\ lock = [s \in SwitchNames \cup {""} |-> NoOne]
    /\ wk = [w \in Workers |-> Idle]
    /\ nevents = 0
    /\ scope = {"B1", "reliable"}
    /\ networks = [n \in NetIds |->
                     IF n = "N1" THEN Net(<<Segment("vlan", 50, "physnet1")>>)
                                 ELSE Net(<<Segment("vlan", 60, "physnet1")>>)]
    /\ vlans = [s \in Inventory |->
                  IF <<"manage_vlans", FALSE>> \notin HostFlags[s] THEN {50, 60} ELSE {}]
    /\ \E b2 \in {NoPort, BoundB2} :
          /\ ports = [p \in PortIds |-> IF p = "B2" THEN b2 ELSE NoPort]
          /\ portcfg = [sp \in SwPorts |->
                          IF sp = <<"SW2", "Eth1/1">> /\ b2 # NoPort
                          THEN [mode |-> "access", vlan |-> 60, members |-> {}]
                          ELSE NoCfg]
    /\ trunks = [p \in PortIds |-> NoTrunk]

NextBm ==
    \/ \E w \in Workers, p \in PortIds, change \in {"touch", "unbind"} :
            update_port_postcommit(w, p, change)
    \/ \E w \in Workers, p \in PortIds : delete_port_postcommit(w, p)
    \/ \E w \in Workers, p \in PortIds : bind_port(w, p)
    \/ \E w \in Workers : commit_port_binding(w)
    \/ \E w \in Workers, p \in PortIds, v \in SubVlans : subports_added(w, p, v)
    \/ \E w \in Workers, p \in PortIds, v \in SubVlans : subports_deleted(w, p, v)
    \/ \E w \in Workers : get_lock(w)
    \/ \E w \in Workers : ensure_port_read(w)
    \/ \E w \in Workers : ensure_port_apply(w)
    \/ \E w \in Workers : is_deleted_port_in_use_next(w)
    \/ \E w \in Workers : ensure_subports_start(w)
    \/ \E w \in Workers : ensure_subports_read(w)
    \/ \E w \in Workers : ensure_subports_apply(w)

SpecBm == InitBm /\ [][NextBm]_vars

---------------------------------------------------------------------------
(* Specification of the events of VM ports of one host, reliable device    *)

\* Ports P1 and P2 are on network N1; port P4 is on network N2, which uses
\* the VLAN id of N1 on another physical network.  All are bound to host h1,
\* whose uplink is SW1 Eth1/10.
InitVm ==
    /\ InitCommon
    /\ scope \in {{"P1", "P2", "reliable"}, {"P1", "P4", "reliable"}}
    /\ networks = [n \in NetIds |->
                     IF n = "N1" THEN Net(<<Segment("vlan", 50, "physnet1")>>)
                                 ELSE Net(<<Segment("vlan", 50, "physnet2")>>)]
    /\ vlans = [s \in Inventory |->
                  IF <<"manage_vlans", FALSE>> \notin HostFlags[s] THEN {50} ELSE {}]
    /\ ports = [p \in PortIds |-> NoPort]
    /\ trunks = [p \in PortIds |-> NoTrunk]

NextVm ==
    \/ \E w \in Workers, p \in PortIds, change \in {"create", "touch", "unbind"} :
            update_port_postcommit(w, p, change)
    \/ \E w \in Workers, p \in PortIds : delete_port_postcommit(w, p)
    \/ \E w \in Workers, p \in PortIds : bind_port(w, p)
    \/ \E w \in Workers : get_lock(w)
    \/ \E w \in Workers : ensure_port_read(w)
    \/ \E w \in Workers : ensure_port_apply(w)

SpecVm == InitVm /\ [][NextVm]_vars

---------------------------------------------------------------------------
(* Specification of the events of one port that cannot be resolved or      *)
(* configured, next to one that can                                        *)

\* The port as a committed binding leaves it.
Bound(p) ==
    [PortSpec(p) EXCEPT !.vif_type = IF PortSpec(p).vnic_type = VNIC_BAREMETAL
                                     THEN VIF_TYPE_OTHER ELSE VIF_TYPE_OVS]

\* One port is in scope; it is absent or was bound before (its link
\* information, or the inventory, may have changed since).
InitErr ==
    /\ InitCommon
    /\ \E p \in {"B1", "B3", "B4", "B5", "B6", "P5", "P6", "Q1"} :
          /\ scope = {p}
          /\ \E port \in {NoPort, Bound(p)} :
                ports = [q \in PortIds |-> IF q = p THEN port ELSE NoPort]
    /\ networks = [n \in NetIds |->
                     IF n = "N1" THEN Net(<<Segment("vlan", 50, "physnet1")>>)
                                 ELSE Net(<<Segment("vlan", 60, "physnet1")>>)]
    /\ vlans = [s \in Inventory |->
                  IF <<"manage_vlans", FALSE>> \notin HostFlags[s] THEN {50, 60} ELSE {}]
    /\ trunks = [p \in PortIds |-> NoTrunk]

NextErr ==
    \/ \E w \in Workers, p \in PortIds, change \in {"create", "touch", "unbind"} :
            update_port_postcommit(w, p, change)
    \/ \E w \in Workers, p \in PortIds : delete_port_postcommit(w, p)
    \/ \E w \in Workers, p \in PortIds : bind_port(w, p)
    \/ \E w \in Workers : commit_port_binding(w)
    \/ \E w \in Workers, p \in PortIds, v \in SubVlans : subports_added(w, p, v)
    \/ \E w \in Workers : get_lock(w)
    \/ \E w \in Workers : ensure_port_read(w)
    \/ \E w \in Workers : ensure_port_apply(w)
    \/ \E w \in Workers : is_deleted_port_in_use_next(w)
    \/ \E w \in Workers : ensure_subports_start(w)
    \/ \E w \in Workers : ensure_subports_read(w)
    \/ \E w \in Workers : ensure_subports_apply(w)

SpecErr == InitErr /\ [][NextErr]_vars

---------------------------------------------------------------------------
(* Specification of the passthrough ports of one host                      *)

SriovPorts == {"D1", "D2", "D3", "D4", "D5", "D6", "P1", "B8"}

\* Two ports of host h1 are in scope: none exists yet, or they are the
\* passthrough ports D1 and D2, created before, with the VLAN of their
\* network on the switch port they share.
InitSriov ==
    /\ lock = [s \in SwitchNames \cup {""} |-> NoOne]
    /\ wk = [w \in Workers |-> Idle]
    /\ nevents = 0
    /\ \E p \in SriovPorts, q \in SriovPorts, before \in BOOLEAN :
          /\ p # q /\ scope = {p, q, "reliable"}
          /\ before => scope = {"D1", "D2", "reliable"}
          /\ ports = [x \in PortIds |->
                        IF before /\ x \in scope THEN Changed(x, "create") ELSE NoPort]
          /\ portcfg = [sp \in SwPorts |->
                          IF before /\ sp = <<"SW1", "Eth1/11">>
                          THEN [mode |-> "trunk", vlan |-> 0, members |-> {50}]
                          ELSE NoCfg]
    /\ networks = [n \in NetIds |->
                     IF n = "N1" THEN Net(<<Segment("vlan", 50, "physnet1")>>)
                                 ELSE Net(<<Segment("vlan", 60, "physnet1")>>)]
    /\ vlans = [s \in Inventory |->
                  IF <<"manage_vlans", FALSE>> \notin HostFlags[s] THEN {50, 60} ELSE {}]
    /\ trunks = [p \in PortIds |-> NoTrunk]

NextSriov ==
    \/ \E w \in Workers, p \in PortIds, change \in {"create", "touch", "unbind"} :
            update_port_postcommit(w, p, change)
    \/ \E w \in Workers, p \in PortIds : delete_port_postcommit(w, p)
    \/ \E v \in {50, 70} : update_segments("N1", <<Segment("vlan", v, "physnet1")>>)
    \/ \E w \in Workers : get_lock(w)
    \/ \E w \in Workers : ensure_port_read(w)
    \/ \E w \in Workers : active_port_filter_next(w)
    \/ \E w \in Workers : ensure_port_apply(w)

SpecSriov == InitSriov /\ [][NextSriov]_vars

---------------------------------------------------------------------------
(* Specification of all hooks over one port that _set_port_state refuses   *)

\* As Init, with one port in scope: a compute port, a bare-metal port, or a
\* bare-metal port whose link information names an unknown switch, no switch
\* or no port.
InitChk ==
    /\ InitCommon
    /\ scope \in {{"P1"}, {"B1"}, {"B4"}, {"B6"}, {"B7"}}
    /\ networks = [n \in NetIds |->
                     IF n = "N1" THEN Net(<<Segment("vlan", 50, "physnet1")>>) ELSE NoNet]
    /\ vlans = [s \in Inventory |-> IF <<"manage_vlans", FALSE>> \notin HostFlags[s] THEN {50} ELSE {}]
    /\ ports = [p \in PortIds |-> NoPort]
    /\ trunks = [p \in PortIds |-> NoTrunk]

SpecChk == InitChk /\ [][Next]_vars

---------------------------------------------------------------------------
(* Specification of the binding of one bare-metal port, device may fail    *)

\* One bare-metal port is in scope: one with full link information, or one
\* whose link information lacks the switch port.  It does not exist yet.
InitBind ==
    /\ InitCommon
    /\ scope \in {{"B1"}, {"B7"}}
    /\ networks = [n \in NetIds |->
                     IF n = "N1" THEN Net(<<Segment("vlan", 50, "physnet1")>>)
                                 ELSE Net(<<Segment("vlan", 60, "physnet1")>>)]
    /\ vlans = [s \in Inventory |->
                  IF <<"manage_vlans", FALSE>> \notin HostFlags[s] THEN {50, 60} ELSE {}]
    /\ ports = [p \in PortIds |-> NoPort]
    /\ trunks = [p \in PortIds |-> NoTrunk]

NextBind ==
    \/ \E w \in Workers, p \in PortIds, change \in {"touch", "unbind", "rehost"} :
            update_port_postcommit(w, p, change)
    \/ \E w \in Workers, p \in PortIds : delete_port_postcommit(w, p)
    \/ \E w \in Workers, p \in PortIds : bind_port(w, p)
    \/ \E w \in Workers : commit_port_binding(w)
    \/ \E w \in Workers, p \in PortIds, v \in SubVlans : subports_added(w, p, v)
    \/ \E w \in Workers, p \in PortIds, v \in SubVlans : subports_deleted(w, p, v)
    \/ \E w \in Workers : get_lock(w)
    \/ \E w \in Workers : ensure_port_read(w)
    \/ \E w \in Workers : ensure_port_apply(w)
    \/ \E w \in Workers : is_deleted_port_in_use_next(w)
    \/ \E w \in Workers : ensure_subports_start(w)
    \/ \E w \in Workers : ensure_subports_read(w)
    \/ \E w \in Workers : ensure_subports_apply(w)

SpecBind == InitBind /\ [][NextBind]_vars

---------------------------------------------------------------------------
(* Specification of a bare-metal port whose MAC address another port has   *)

\* As InitBm, but the network of port B2 is on the physical network of
\* B1's network or on another one, and the device may fail.  Port B1 is
\* absent, or B2 and then B1 were bound before on the switch port they share.
InitMac ==
    /\ lock = [s \in SwitchNames \cup {""} |-> NoOne]
    /\ wk = [w \in Workers |-> Idle]
    /\ nevents = 0
    /\ \E physnet \in {"physnet1", "physnet2"} :
          networks = [n \in NetIds |->
                        IF n = "N1" THEN Net(<<Segment("vlan", 50, "physnet1")>>)
                                    ELSE Net(<<Segment("vlan", 60, physnet)>>)]
    /\ vlans = [s \in Inventory |->
                  IF <<"manage_vlans", FALSE>> \notin HostFlags[s] THEN {50, 60} ELSE {}]
    /\ \E b1 \in {NoPort, Bound("B1")}, b2 \in {NoPort, BoundB2} :
          /\ b1 # NoPort => b2 # NoPort
          /\ scope = IF b1 = NoPort THEN {"B1"} ELSE {"B1", "B2"}
          /\ ports = [p \in PortIds |-> IF p = "B1" THEN b1
                                        ELSE IF p = "B2" THEN b2 ELSE NoPort]
          /\ portcfg = [sp \in SwPorts |->
                          IF sp = <<"SW2", "Eth1/1">> /\ b2 # NoPort
                          THEN [mode |-> "access",
                                vlan |-> IF b1 = NoPort THEN 60 ELSE 50,
                                members |-> {}]
                          ELSE NoCfg]
    /\ trunks = [p \in PortIds |-> NoTrunk]

\* The events of SpecBm, and the control plane moving the segment of
\* network N2 between the physical networks.
NextMac ==
    \/ NextBm
    \/ \E physnet \in {"physnet1", "physnet2"} :
            update_segments("N2", <<Segment("vlan", 60, physnet)>>)

SpecMac == InitMac /\ [][NextMac]_vars

---------------------------------------------------------------------------
(* Specification of the events of a trunk parent that was bound before     *)

\* One trunk parent is in scope, a bare-metal port or a compute port: it was
\* bound before, its trunk has the sub-port of VLAN 60 and its switch port
\* is configured as _set_port_state left it.  The device may fail.
InitTrunk ==
    /\ lock = [s \in SwitchNames \cup {""} |-> NoOne]
    /\ wk = [w \in Workers |-> Idle]
    /\ nevents = 0
    /\ networks = [n \in NetIds |->
                     IF n = "N1" THEN Net(<<Segment("vlan", 50, "physnet1")>>)
                                 ELSE Net(<<Segment("vlan", 60, "physnet1")>>)]
    /\ vlans = [s \in Inventory |->
                  IF <<"manage_vlans", FALSE>> \notin HostFlags[s] THEN {50, 60} ELSE {}]
    /\ \E ps \in {<<"B1", <<"SW2", "Eth1/1">> >>, <<"P1", <<"SW1", "Eth1/10">> >>} :
          /\ scope = {ps[1]}
          /\ ports = [q \in PortIds |-> IF q = ps[1] THEN Bound(q) ELSE NoPort]
          /\ trunks = [q \in PortIds |->
                         IF q = ps[1] THEN [exists |-> TRUE, sub_ports |-> <<60>>]
                         ELSE NoTrunk]
          /\ portcfg = [sp \in SwPorts |->
                          IF sp = ps[2]
                          THEN [mode |-> "trunk", vlan |-> 50, members |-> {60}]
                          ELSE NoCfg]

\* The port is updated, unbound or deleted, its trunk changes or is deleted,
\* and the hooks of these events run.
NextTrunk ==
    \/ \E w \in Workers, p \in PortIds, change \in {"touch", "unbind"} :
            update_port_postcommit(w, p, change)
    \/ \E w \in Workers, p \in PortIds : delete_port_postcommit(w, p)
    \/ \E w \in Workers, p \in PortIds, v \in SubVlans : subports_added(w, p, v)
    \/ \E w \in Workers, p \in PortIds, v \in SubVlans : subports_deleted(w, p, v)
    \/ \E p \in PortIds : trunk_deleted(p)
    \/ \E w \in Workers : get_lock(w)
    \/ \E w \in Workers : ensure_port_read(w)
    \/ \E w \in Workers : ensure_port_apply(w)
    \/ \E w \in Workers : is_deleted_port_in_use_next(w)
    \/ \E w \in Workers : ensure_subports_start(w)
    \/ \E w \in Workers : ensure_subports_read(w)
    \/ \E w \in Workers : ensure_subports_apply(w)

SpecTrunk == InitTrunk /\ [][NextTrunk]_vars

---------------------------------------------------------------------------
(* Specification of ensure_port called with either value of its delete     *)
(* flag on a bare-metal port                                                *)

\* The store ensure_port is called over: bare-metal port B1 is bound, or
\* unbound with its link information, or gone; it has a trunk or not; port
\* B2 with the same MAC address is there or not.  The device may fail.
InitFlag ==
    /\ lock = [s \in SwitchNames \cup {""} |-> NoOne]
    /\ wk = [w \in Workers |-> Idle]
    /\ nevents = 0
    /\ scope = {"B1"}
    /\ networks = [n \in NetIds |->
                     IF n = "N1" THEN Net(<<Segment("vlan", 50, "physnet1")>>)
                                 ELSE Net(<<Segment("vlan", 60, "physnet1")>>)]
    /\ vlans = [s \in Inventory |->
                  IF <<"manage_vlans", FALSE>> \notin HostFlags[s] THEN {50, 60} ELSE {}]
    /\ \E b1 \in {NoPort, PortSpec("B1"), Bound("B1")}, b2 \in {NoPort, BoundB2},
          t \in {NoTrunk, [exists |-> TRUE, sub_ports |-> <<60>>]} :
          /\ ports = [q \in PortIds |-> IF q = "B1" THEN b1
                                        ELSE IF q = "B2" THEN b2 ELSE NoPort]
          /\ trunks = [q \in PortIds |-> IF q = "B1" /\ b1 # NoPort THEN t ELSE NoTrunk]
          /\ portcfg = [sp \in SwPorts |->
                          IF sp = <<"SW2", "Eth1/1">> /\ b2 # NoPort
                          THEN [mode |-> "access", vlan |-> 60, members |-> {}]
                          ELSE NoCfg]

\* ensure_port(port, db, switch_name, switch_port, physnet, port_context,
\* segmentation_id, delete) is called for the mapping of port p, the port
\* given as it is in the store or, when it is gone, as it was bound; the
\* binding context has segments to bind when the caller is bind_port.
ensure_port_called(w, p, op, delete) ==
    LET port == IF IsNone(ports[p]) THEN Bound(p) ELSE ports[p]
        base == [Idle EXCEPT !.op = op, !.cur = port, !.port = port, !.del = delete,
                             !.net = ProviderDict(port.network_id),
                             !.segs = IF op = "bind_port"
                                      THEN networks[port.network_id].segments ELSE <<>>]
    IN  /\ Free(w)
        /\ nevents < MaxEvents
        /\ p \in scope
        /\ ~is_port_normal(port)
        /\ wk' = [wk EXCEPT ![w] = start_ensure(base)]
        /\ nevents' = nevents + 1
        /\ UNCHANGED <<networks, ports, trunks, lock, vlans, portcfg, scope>>

NextFlag ==
    \/ \E w \in Workers, p \in PortIds, op \in {"update_port", "delete_port", "bind_port"},
          delete \in BOOLEAN : ensure_port_called(w, p, op, delete)
    \/ \E w \in Workers : commit_port_binding(w)
    \/ \E w \in Workers : get_lock(w)
    \/ \E w \in Workers : ensure_port_read(w)
    \/ \E w \in Workers : ensure_port_apply(w)
    \/ \E w \in Workers : is_deleted_port_in_use_next(w)

SpecFlag == InitFlag /\ [][NextFlag]_vars

---------------------------------------------------------------------------
(* Specification of the events of a port with an unsupported VNIC type     *)

\* One port is in scope and not in the store yet: a port with the macvtap
\* VNIC type (compute-owned on a mapped host, or with another owner and no
\* link information), or a bare-metal port with or without link information.
InitVnic ==
    /\ InitCommon
    /\ scope \in {{"M1"}, {"M2"}, {"B1"}, {"B3"}}
    /\ ports = [q \in PortIds |-> NoPort]
    /\ networks = [n \in NetIds |->
                     IF n = "N1" THEN Net(<<Segment("vlan", 50, "physnet1")>>)
                                 ELSE Net(<<Segment("vlan", 60, "physnet1")>>)]
    /\ vlans = [s \in Inventory |->
                  IF <<"manage_vlans", FALSE>> \notin HostFlags[s] THEN {50, 60} ELSE {}]
    /\ trunks = [p \in PortIds |-> NoTrunk]

SpecVnic == InitVnic /\ [][NextErr]_vars

---------------------------------------------------------------------------
(* Specification of the deletion of ports of every class                    *)

\* Two ports are in scope: two bare-metal ports with link information, B2
\* bound before on its switch port; a compute port of a host with two
\* mappings and a compute-owned port with the bare-metal VNIC type, no link
\* information and the OVS binding (its update hook changed no switch); two
\* compute ports of one host, one with a VNIC type the driver does not
\* support; a port of VNIC type normal that compute does not own and a
\* bare-metal port without link information.  The device may fail.
InitDel ==
    /\ lock = [s \in SwitchNames \cup {""} |-> NoOne]
    /\ wk = [w \in Workers |-> Idle]
    /\ nevents = 0
    /\ scope \in {{"B1", "B2"}, {"P3", "B5"}, {"P1", "M1"}, {"Q1", "B3"}}
    /\ networks = [n \in NetIds |->
                     IF n = "N1" THEN Net(<<Segment("vlan", 50, "physnet1")>>)
                                 ELSE Net(<<Segment("vlan", 60, "physnet1")>>)]
    /\ vlans = [s \in Inventory |->
                  IF <<"manage_vlans", FALSE>> \notin HostFlags[s] THEN {50, 60} ELSE {}]
    /\ ports = [p \in PortIds |->
                  IF p \notin scope THEN NoPort
                  ELSE IF p = "B2" THEN BoundB2
                  ELSE IF p = "B5" THEN Changed("B5", "create")
                  ELSE NoPort]
    /\ portcfg = [sp \in SwPorts |->
                    IF sp = <<"SW2", "Eth1/1">> /\ "B2" \in scope
                    THEN [mode |-> "access", vlan |-> 60, members |-> {}]
                    ELSE NoCfg]
    /\ trunks = [p \in PortIds |-> NoTrunk]

SpecDel == InitDel /\ [][NextPort]_vars

---------------------------------------------------------------------------
(* Specification of the network lifecycle over networks of several types   *)

\* A vlan network, a vxlan network (a segmentation id, another type) and a
\* flat network (no segmentation id).
TypeChoices == {Segment("vlan", 50, "physnet1"), Segment("vxlan", 50, ""),
                Segment("flat", 0, "physnet1")}

NextType ==
    \/ \E w \in Workers, n \in NetIds, seg \in TypeChoices :
            create_network_postcommit(w, n, seg)
    \/ \E w \in Workers, n \in NetIds : delete_network_postcommit(w, n)
    \/ \E w \in Workers : get_lock(w)
    \/ \E w \in Workers : create_network_read(w)
    \/ \E w \in Workers : create_network_apply(w)
    \/ \E w \in Workers : delete_network_read(w)
    \/ \E w \in Workers : delete_network_apply(w)

SpecType == InitNet /\ [][NextType]_vars

---------------------------------------------------------------------------
(* Specification of network create and delete events on one VLAN id,       *)
(* reliable device                                                          *)

\* The segments the control plane gives a new network: VLAN 50 on physnet1,
\* a vxlan segment with the same id and, in the behaviours whose scope holds
\* "physnet2", VLAN 50 on a second physical network.
ConvChoices ==
    {Segment("vlan", 50, "physnet1"), Segment("vxlan", 50, "")}
      \cup (IF "physnet2" \in scope THEN {Segment("vlan", 50, "physnet2")} ELSE {})

InitConv ==
    /\ InitCommon
    /\ vlans = [s \in Inventory |-> {}]
    /\ networks = [n \in NetIds |-> NoNet]
    /\ ports = [p \in PortIds |-> NoPort]
    /\ trunks = [p \in PortIds |-> NoTrunk]
    /\ scope \in {{"reliable"}, {"reliable", "physnet2"}}

\* Network ids are fresh UUIDs: a new network never gets the id of a network
\* that a hook was called with (with MaxEvents = 3 the id of a deleted
\* network is still in the record of the worker that ran its delete hook).
FreshNetId(n) == \A w \in Workers : wk[w].net.id # n

NextConv ==
    \/ \E w \in Workers, n \in NetIds, seg \in ConvChoices :
            FreshNetId(n) /\ create_network_postcommit(w, n, seg)
    \/ \E w \in Workers, n \in NetIds : delete_network_postcommit(w, n)
    \/ \E w \in Workers : get_lock(w)
    \/ \E w \in Workers : create_network_read(w)
    \/ \E w \in Workers : create_network_apply(w)
    \/ \E w \in Workers : delete_network_read(w)
    \/ \E w \in Workers : delete_network_apply(w)

SpecConv == InitConv /\ [][NextConv]_vars

---------------------------------------------------------------------------
(* Claims *)

\* Worker w issues device call o in this step.
Issues(w, o) ==
    /\ Len(wk'[w].calls) = Len(wk[w].calls) + 1
    /\ Last(wk'[w].calls).op = o

\* Some segment of the store has this id, physical network and type vlan.
VlanSegmentInStore(v, pn) ==
    \E n \in NetIds : \E i \in 1..Len(networks[n].segments) :
        networks[n].segments[i] = Segment("vlan", v, pn)

\* C2: on a network-create event, create-vlan is issued on a switch only
\* if the re-read made under that switch's lock found the network present
\* with the event's segmentation id among its segments; a stale request is
\* dropped with no device call and no error.
C2_CreateVlanOnlyIfFresh ==
    [][\A w \in Workers :
        LET r == wk[w]
            r2 == wk'[w]
            fresh == /\ networks[r.net.id].exists
                     /\ \E i \in 1..Len(networks[r.net.id].segments) :
                           networks[r.net.id].segments[i].segmentation_id
                             = r.net.segmentation_id
        IN  /\ Issues(w, "create_vlan") =>
                  /\ r.pc = "apply" /\ r.op = "create_network"
                  /\ r.rnet.exists
                  /\ \E i \in 1..Len(r.rnet.segments) :
                        r.rnet.segments[i].segmentation_id = r.net.segmentation_id
                  /\ Last(r2.calls).vlan = r.net.segmentation_id
                  /\ Last(r2.calls).sw = r.sw
            /\ (r.op = "create_network" /\ r.pc = "locked" /\ r2 # r
                    /\ r.net.network_type = "vlan" /\ r.net.segmentation_id # 0) =>
                  IF fresh
                  THEN r2.pc = "apply" /\ r2.rnet = networks[r.net.id] /\ lock'[r.sw] = w
                  ELSE r2.pc = "done" /\ r2.calls = r.calls /\ r2.err = ""
                       /\ lock'[r.sw] = NoOne
    ]_vars

\* A create request found stale because the segment changed: the network
\* exists, the hook returned without a call and without an error.
C2_Witness ==
    \E w \in Workers :
        /\ wk[w].op = "create_network" /\ wk[w].pc = "done"
        /\ wk[w].net.network_type = "vlan"
        /\ wk[w].calls = <<>> /\ wk[w].err = ""
        /\ networks[wk[w].net.id].exists

\* C3: on a network-delete event, delete-vlan is issued on a switch only
\* if the query made under that switch's lock found no segment with the
\* same segmentation id, the same physical network and type vlan; if one
\* exists the request is dropped with no device call and no error.
C3_DeleteVlanOnlyIfUnused ==
    [][\A w \in Workers :
        LET r == wk[w]
            r2 == wk'[w]
        IN  /\ Issues(w, "delete_vlan") =>
                  /\ r.pc = "apply" /\ r.op = "delete_network"
                  /\ Segment("vlan", r.net.segmentation_id, r.net.physical_network)
                        \notin r.segments
                  /\ Last(r2.calls).vlan = r.net.segmentation_id
                  /\ Last(r2.calls).sw = r.sw
            /\ (r.op = "delete_network" /\ r.pc = "locked" /\ r2 # r) =>
                  IF VlanSegmentInStore(r.net.segmentation_id, r.net.physical_network)
                  THEN r2.pc = "done" /\ r2.calls = r.calls /\ r2.err = ""
                       /\ lock'[r.sw] = NoOne
                  ELSE r2.pc = "apply" /\ lock'[r.sw] = w
                       /\ r2.segments = get_segments(r.net.segmentation_id)
    ]_vars

\* A delete request dropped because the VLAN was recreated, while a segment
\* with the same id on another physical network did not block a delete.
C3_Witness ==
    \E w \in Workers :
        /\ wk[w].op = "delete_network" /\ wk[w].pc = "done"
        /\ wk[w].net.network_type = "vlan" /\ wk[w].net.segmentation_id # 0
        /\ wk[w].calls = <<>> /\ wk[w].err = ""
        /\ VlanSegmentInStore(wk[w].net.segmentation_id, wk[w].net.physical_network)

PortHooks == {"update_port", "delete_port", "bind_port"}

\* Worker w is inside the "with lock:" block of switch name.
InCritical(w, name) == wk[w].pc \in {"locked", "filter", "apply", "mid"} /\ wk[w].sw = name

\* The calls worker w makes in this step.
NewCalls(w) == {wk'[w].calls[i] : i \in (Len(wk[w].calls) + 1)..Len(wk'[w].calls)}

\* C4: at most one handler is inside the critical section of a switch, and
\* every device call on a switch is made by the worker that holds the lock
\* of that switch.
C4_MutualExclusion ==
    /\ [](\A name \in SwitchNames : \A w1, w2 \in Workers :
            (InCritical(w1, name) /\ InCritical(w2, name)) => w1 = w2)
    /\ [][\A w \in Workers : \A c \in NewCalls(w) :
            /\ lock[c.sw] = w
            /\ InCritical(w, c.sw)]_vars

\* A network handler is inside the critical section of a switch while a
\* port handler waits for the same switch.
C4_Witness ==
    \E w1, w2 \in Workers :
        /\ wk[w1].op \in {"create_network", "delete_network"}
        /\ wk[w2].op \in PortHooks \cup {"ensure_subports"}
        /\ InCritical(w1, wk[w2].sw) /\ lock[wk[w2].sw] = w1
        /\ wk[w2].pc = "acquire"

\* C5: the lock of the switch is held from the re-read to the device call:
\* a handler that has read holds the lock until it has applied, device
\* calls are made only in a step that follows the reads, and between the
\* first read and that step no other handler calls the device of that
\* switch and the configuration of the switch does not change.
C5_LockHeldReadToWrite ==
    /\ [](\A w \in Workers : wk[w].pc \in {"locked", "filter", "apply", "mid"} => lock[wk[w].sw] = w)
    /\ [][\A w \in Workers :
            /\ NewCalls(w) # {} =>
                  /\ wk[w].pc \in {"apply", "mid"} /\ lock[wk[w].sw] = w
                  /\ \A c \in NewCalls(w) : c.sw = wk[w].sw
            /\ (wk[w].pc \in {"filter", "apply", "mid"} /\ wk'[w] = wk[w]) =>
                  /\ \A w2 \in Workers : \A c \in NewCalls(w2) : c.sw # wk[w].sw
                  /\ wk[w].sw \in Inventory => vlans'[wk[w].sw] = vlans[wk[w].sw]
                  /\ \A sp \in SwPorts : sp[1] = wk[w].sw => portcfg'[sp] = portcfg[sp]
                  /\ lock'[wk[w].sw] = w]_vars

\* A handler has read under the lock and still holds it, although the
\* control plane has changed what it read, and it then makes its call.
C5_Witness ==
    \E w \in Workers :
        /\ wk[w].pc = "apply" /\ lock[wk[w].sw] = w
        /\ \/ wk[w].op \in PortHooks /\ wk[w].updated # ports[wk[w].port.id]
           \/ wk[w].op = "create_network" /\ wk[w].rnet # networks[wk[w].net.id]

\* C6: the lock is released on every exit: a lock is held only by a handler
\* inside the block of that switch, so a handler that returned, discarded the
\* request or raised holds none; and a handler that waits for a lock is
\* eventually granted it.
C6_LockReleasedOnEveryExit ==
    /\ [](\A name \in DOMAIN lock :
            lock[name] # NoOne => InCritical(lock[name], name))
    /\ \A w \in Workers : (wk[w].pc = "acquire") ~> (wk[w].pc # "acquire")

\* A handler ended with the error of a failed device call, and the other
\* worker was then granted the lock of the same switch.
C6_Witness ==
    \E w1, w2 \in Workers :
        /\ wk[w1].pc = "done" /\ wk[w1].err # "" /\ wk[w1].calls # <<>>
        /\ ~Last(wk[w1].calls).ok
        /\ InCritical(w2, Last(wk[w1].calls).sw)
        /\ lock[wk[w2].sw] = w2

\* The call worker w appends in this step, without its result.
Issued(w) == [Last(wk'[w].calls) EXCEPT !.ok = TRUE]
IssuesOne(w) == Len(wk'[w].calls) = Len(wk[w].calls) + 1
IssuesNone(w) == wk'[w].calls = wk[w].calls

\* C1: deleting a compute port P1 through ensure_port(delete=True): when
\* the read under the switch lock finds another compute port on P1's
\* network bound to P1's host, no delete_trunk_vlan is issued and the call
\* ends without error; when it finds none, delete_trunk_vlan(switch,
\* switch port, VLAN) is issued exactly once for the mapping.
C1_SharedUplinkVlanKept ==
    [][\A w \in Workers :
        LET r == wk[w]
            r2 == wk'[w]
            others == {q \in PortIds : /\ ports[q].id # "" /\ q # r.port.id
                                       /\ ports[q].device_owner = COMPUTE_NOVA
                                       /\ ports[q].network_id = r.port.network_id
                                       /\ ports[q].host = r.port.host}
            vmdel == /\ r.op = "delete_port" /\ r.del /\ r2 # r
                     /\ r.port.device_owner = COMPUTE_NOVA
                     /\ r.port.vnic_type # VNIC_DIRECT
        IN  /\ (vmdel /\ r.pc = "locked") => (r2.pc = "apply" /\ r2.active = others)
            /\ (vmdel /\ r.pc = "apply") =>
                  IF r.active # {}
                  THEN IssuesNone(w) /\ r2.err = ""
                  ELSE /\ IssuesOne(w)
                       /\ Issued(w) = Call("delete_trunk_vlan", r.sw, r.swport,
                                            r.net.segmentation_id, <<>>, TRUE)
            /\ Issues(w, "delete_trunk_vlan") => (vmdel /\ r.pc = "apply")
    ]_vars

\* P1 was deleted while another compute port of its network stays on its
\* host: the hook ended with no call and no error.
C1_Witness ==
    \E w \in Workers : \E q \in PortIds :
        /\ wk[w].op = "delete_port" /\ wk[w].pc = "done" /\ wk[w].del
        /\ wk[w].port.device_owner = COMPUTE_NOVA
        /\ wk[w].calls = <<>> /\ wk[w].err = ""
        /\ ports[q].id # "" /\ q # wk[w].port.id
        /\ ports[q].network_id = wk[w].port.network_id
        /\ ports[q].host = wk[w].port.host

\* A non-delete ensure_port whose re-read under the lock found the port gone.
EnsuresRemovedPort(w) ==
    /\ wk[w].op \in {"update_port", "bind_port"} /\ ~wk[w].del
    /\ wk[w].pc = "apply"
    /\ wk[w].updated.id = ""
    /\ wk'[w] # wk[w]

Configures(w) ==
    \/ Issues(w, "add_trunk_vlan")
    \/ Issues(w, "conf_access_port")
    \/ Issues(w, "conf_trunk_port")

\* C7 as stated: for every kind of port, a non-delete ensure_port that runs
\* after the port was removed from the store issues no add_trunk_vlan,
\* conf_access_port or conf_trunk_port.
C7_Original ==
    [][\A w \in Workers : EnsuresRemovedPort(w) => ~Configures(w)]_vars

\* The step in which worker w runs _set_port_state, and the port it passes.
SetsPortState(w) ==
    /\ wk[w].pc = "apply" /\ wk'[w] # wk[w]
    /\ \/ wk[w].op = "ensure_subports"
       \/ /\ wk[w].op \in PortHooks
          /\ IF wk[w].port.device_owner = COMPUTE_NOVA THEN ~wk[w].del
             ELSE wk[w].updated.lli # <<>>
StatePort(w) ==
    IF wk[w].op \in PortHooks /\ wk[w].port.device_owner = COMPUTE_NOVA
    THEN wk[w].port ELSE wk[w].updated
\* The port passed is the Port object read under the lock, not the dict of
\* the hook's context.
StateIsObj(w) == ~(wk[w].op \in PortHooks /\ wk[w].port.device_owner = COMPUTE_NOVA)

\* _set_port_state passes its checks for this port in the current store.
StateChecksPass(w) ==
    /\ StatePort(w).id # ""
    /\ wk[w].sw \in Inventory /\ wk[w].swport # ""
    /\ networks[StatePort(w).network_id].exists
    /\ networks[StatePort(w).network_id].segments # <<>>

PrimaryVlan(port) == networks[port.network_id].segments[1].segmentation_id

\* C8: when its checks pass, _set_port_state issues exactly one device
\* call, chosen over the current store: a trunk exists for the port ->
\* conf_trunk_port(switch, port, primary VLAN, every sub-port's
\* segmentation id); else the port is compute-owned -> add_trunk_vlan(switch,
\* port, primary VLAN); else conf_access_port(switch, port, primary VLAN).
C8_SetPortStateTable ==
    [][\A w \in Workers :
        (SetsPortState(w) /\ StateChecksPass(w)) =>
          LET port == StatePort(w)
              v == PrimaryVlan(port)
          IN  /\ IssuesOne(w)
              /\ Issued(w) =
                    IF trunks[port.id].exists
                    THEN Call("conf_trunk_port", wk[w].sw, wk[w].swport, v,
                              trunks[port.id].sub_ports, TRUE)
                    ELSE IF port.device_owner = COMPUTE_NOVA
                    THEN Call("add_trunk_vlan", wk[w].sw, wk[w].swport, v, <<>>, TRUE)
                    ELSE Call("conf_access_port", wk[w].sw, wk[w].swport, v, <<>>, TRUE)
              /\ Last(wk'[w].calls).ok => wk'[w].err = ""
    ]_vars

\* The scenario of the specification: the bare-metal port on SW2 Eth1/1 in
\* VLAN 50 was configured as an access port, then, with a sub-port on VLAN
\* 60, as a trunk port.
C8_Witness ==
    \E w1, w2 \in Workers :
        /\ wk[w1].pc = "done" /\ wk[w2].pc = "done"
        /\ wk[w1].calls = <<Call("conf_access_port", "SW2", "Eth1/1", 50, <<>>, TRUE)>>
        /\ wk[w2].calls = <<Call("conf_trunk_port", "SW2", "Eth1/1", 50, <<60>>, TRUE)>>
        /\ portcfg[<<"SW2", "Eth1/1">>] = [mode |-> "trunk", vlan |-> 50, members |-> {60}]

\* C9: every conf_trunk_port carries the full current member list: its
\* member list is the list of the segmentation ids of the sub-ports the trunk
\* has in the store when _set_port_state reads it under the lock, and
\* _set_port_state of a port with a trunk issues nothing else.
C9_TrunkCarriesAllMembers ==
    [][\A w \in Workers :
        /\ Issues(w, "conf_trunk_port") =>
              /\ SetsPortState(w)
              /\ trunks[StatePort(w).id].exists
              /\ Last(wk'[w].calls).members = trunks[StatePort(w).id].sub_ports
              /\ \A v \in SubVlans :
                    (v \in SeqToSet(Last(wk'[w].calls).members)) <=>
                    (\E i \in 1..Len(trunks[StatePort(w).id].sub_ports) :
                        trunks[StatePort(w).id].sub_ports[i] = v)
        /\ (SetsPortState(w) /\ StateChecksPass(w) /\ trunks[StatePort(w).id].exists)
              => Issues(w, "conf_trunk_port")
    ]_vars

\* A sub-port was added and state-setting sent it; it was removed and
\* state-setting sent the list without it.
C9_Witness ==
    \E w1, w2 \in Workers :
        /\ wk[w1].op = "ensure_subports" /\ wk[w2].op = "ensure_subports"
        /\ Len(wk[w1].calls) = 1 /\ wk[w1].calls[1].op = "conf_trunk_port"
        /\ wk[w1].calls[1].members = <<60>>
        /\ Len(wk[w2].calls) = 1 /\ wk[w2].calls[1].op = "conf_trunk_port"
        /\ wk[w2].calls[1].members = <<>>
        /\ trunks[wk[w2].port_id].sub_ports = <<>>

\* C10: a non-delete ensure_port of a compute-owned port that passes the
\* checks issues add_trunk_vlan and never conf_trunk_port or
\* conf_access_port, whatever else is in the store.
C10_VmPortAlwaysIncremental ==
    [][\A w \in Workers :
        (/\ wk[w].op \in {"update_port", "bind_port"} /\ ~wk[w].del
         /\ wk[w].port.device_owner = COMPUTE_NOVA
         /\ wk[w].pc = "apply" /\ wk'[w] # wk[w]) =>
           /\ ~Issues(w, "conf_trunk_port")
           /\ ~Issues(w, "conf_access_port")
           /\ StateChecksPass(w) => Issues(w, "add_trunk_vlan")
    ]_vars

\* C11: _set_port_state is idempotent: once it has succeeded for a port, a
\* switch and a switch port, a second application in the state it leaves
\* (same store) issues the same device call with the same arguments, and
\* that call leaves the configuration of the switch as the first left it.
C11_SetPortStateIdempotent ==
    [][\A w \in Workers :
        (SetsPortState(w) /\ StateChecksPass(w) /\ Last(wk'[w].calls).ok) =>
          \A port \in {StatePort(w)} : \A sw \in {wk[w].sw} : \A swport \in {wk[w].swport} :
          \A c \in {Issued(w)} :
              /\ set_port_state(port, sw, swport, StateIsObj(w))' = Outcome("", c)
              /\ DevicePorts(c)' = portcfg'
    ]_vars

\* _set_port_state ran twice in succession for the same port on the same
\* switch port: both runs issued the same successful call.
C11_Witness ==
    \E w1, w2 \in Workers :
        /\ w1 # w2 /\ wk[w1].pc = "done" /\ wk[w2].pc = "done"
        /\ Len(wk[w1].calls) = 1 /\ wk[w1].calls = wk[w2].calls
        /\ wk[w1].calls[1].op \in {"add_trunk_vlan", "conf_access_port", "conf_trunk_port"}
        /\ wk[w1].calls[1].ok
        /\ wk[w1].port.id = wk[w2].port.id \/ wk[w1].port_id = wk[w2].port_id
        /\ DevicePorts(wk[w1].calls[1]) = portcfg

\* The inventory entry of switch s does not disable VLAN management.
VlanManaging(s) == <<"manage_vlans", FALSE>> \notin HostFlags[s]
\* The calls of one network event that reaches every VLAN-managing switch.
ExpectedCalls(o, v) ==
    LET sw == SelectSeq(InventoryOrder, VlanManaging)
    IN  [i \in 1..Len(sw) |-> Call(o, sw[i], "", v, <<>>, TRUE)]
Norm(calls) == [i \in 1..Len(calls) |-> [calls[i] EXCEPT !.ok = TRUE]]
VlanEvent(r) == r.net.network_type = "vlan" /\ r.net.segmentation_id # 0

\* The calls of a handler that name operation o, switch s and VLAN v.
CallsOn(calls, o, s, v) ==
    {i \in 1..Len(calls) : Norm(calls)[i] = Call(o, s, "", v, <<>>, TRUE)}

\* C12: a create event of vlan network N with segmentation id v, processed
\* while N exists with v, issues create_vlan(switch, v) exactly once on each
\* VLAN-managing switch of the inventory and nothing else; a later delete
\* event, processed when no vlan segment with v on the physical network
\* remains, issues delete_vlan(switch, v) exactly once on each such switch.
\* A handler that the failure of a call has ended (see C21) has issued the
\* call at most once on each such switch.  Step by step: at each switch
\* where the handler finds the condition of its event true it issues the
\* call, on a VLAN-managing switch that has not had it from this handler.
C12_VlanOnEveryManagingSwitch ==
    /\ [](\A w \in Workers :
            LET r == wk[w]
                v == r.net.segmentation_id
                o == IF r.op = "create_network" THEN "create_vlan" ELSE "delete_vlan"
                n == IF r.err = "" THEN {1} ELSE {0, 1}
            IN  (/\ r.pc = "done" /\ VlanEvent(r)
                 /\ \/ r.op = "create_network" /\ nevents = 1
                    \/ /\ r.op = "delete_network" /\ nevents = 2
                       /\ \A m \in NetIds : ~networks[m].exists) =>
                  /\ \A s \in Inventory :
                        Cardinality(CallsOn(r.calls, o, s, v))
                            \in (IF VlanManaging(s) THEN n ELSE {0})
                  /\ \A i \in 1..Len(r.calls) :
                        \E s \in Inventory : i \in CallsOn(r.calls, o, s, v))
    /\ [][\A w \in Workers :
            LET r == wk[w]
                r2 == wk'[w]
                v == r.net.segmentation_id
                o == IF r.op = "create_network" THEN "create_vlan" ELSE "delete_vlan"
                fresh == IF r.op = "create_network"
                         THEN /\ networks[r.net.id].exists
                              /\ \E i \in 1..Len(networks[r.net.id].segments) :
                                    networks[r.net.id].segments[i].segmentation_id = v
                         ELSE ~VlanSegmentInStore(v, r.net.physical_network)
            IN  (r.op \in {"create_network", "delete_network"} /\ VlanEvent(r) /\ r2 # r) =>
                  /\ (r.pc = "locked" /\ fresh) => (r2.pc = "apply" /\ r2.calls = r.calls)
                  /\ r.pc = "apply" =>
                        /\ IssuesOne(w) /\ Issued(w) = Call(o, r.sw, "", v, <<>>, TRUE)
                        /\ VlanManaging(r.sw)
                        /\ \A i \in 1..Len(r.calls) : r.calls[i].sw # r.sw
                        /\ (Last(r2.calls).ok /\ r2.pc = "done") =>
                              /\ r2.err = ""
                              /\ \A s \in Inventory : VlanManaging(s) =>
                                    Cardinality(CallsOn(r2.calls, o, s, v)) = 1
       ]_vars

\* Network N was created and then deleted: create_vlan and then delete_vlan
\* were issued once on each VLAN-managing switch.
C12_Witness ==
    \E w1, w2 \in Workers :
        /\ wk[w1].pc = "done" /\ wk[w1].op = "create_network" /\ wk[w1].err = ""
        /\ wk[w2].pc = "done" /\ wk[w2].op = "delete_network" /\ wk[w2].err = ""
        /\ wk[w1].net = wk[w2].net
        /\ wk[w1].calls = ExpectedCalls("create_vlan", 50)
        /\ wk[w2].calls = ExpectedCalls("delete_vlan", 50)
        /\ \A sw \in Inventory : vlans[sw] = {}

NetworkHooks == {"create_network", "delete_network"}

\* C13: a switch whose inventory entry sets manage_vlans to False gets no
\* create_vlan or delete_vlan and no network handler waits for or holds its
\* lock; a network handler that takes locks starts with the first switch of
\* the inventory that does not set the flag to False.
C13_ManageVlansRespected ==
    /\ [](\A s \in Inventory : ~VlanManaging(s) =>
            /\ vlans[s] = {}
            /\ \A w \in Workers :
                  /\ wk[w].op \in NetworkHooks => (wk[w].sw # s /\ lock[s] # w)
                  /\ \A i \in 1..Len(wk[w].calls) :
                        wk[w].calls[i].op \in {"create_vlan", "delete_vlan"}
                            => wk[w].calls[i].sw # s)
    /\ [][\A w \in Workers :
            (/\ wk[w].pc = "done" /\ wk'[w] # wk[w]
             /\ wk'[w].op \in NetworkHooks
             /\ wk'[w].op = "delete_network" => VlanEvent(wk'[w])) =>
                /\ wk'[w].pc = "acquire"
                /\ wk'[w].sw = Head(SelectSeq(InventoryOrder, VlanManaging))]_vars

\* A network was created: its VLAN is on the switches without the flag and
\* not on the switch with manage_vlans False, whose lock was never asked for.
C13_Witness ==
    \E w \in Workers : \E s \in Inventory :
        /\ ~VlanManaging(s)
        /\ wk[w].pc = "done" /\ wk[w].op = "create_network" /\ wk[w].err = ""
        /\ Len(wk[w].calls) = Cardinality(Inventory) - 1
        /\ \A t \in Inventory \ {s} :
              HostFlags[t] = {} /\ wk[w].net.segmentation_id \in vlans[t]
        /\ wk[w].net.segmentation_id \notin vlans[s]

Quiescent == \A w \in Workers : wk[w].pc = "done" /\ ~wk[w].pending

\* Another port with the MAC address of port p has link information and is
\* on a network with a vlan segment of p's physical network.
InUseByOther(p) ==
    \E q \in PortIds \ {p} :
        /\ ports[q].id # "" /\ ports[q].mac_address = PortSpec(p).mac_address
        /\ ports[q].lli # <<>>
        /\ networks[ports[q].network_id].exists
        /\ \E i \in 1..Len(networks[ports[q].network_id].segments) :
              LET seg == networks[ports[q].network_id].segments[i]
              IN  /\ seg.network_type = "vlan"
                  /\ seg.physical_network =
                        networks[PortSpec(p).network_id].segments[1].physical_network

TrunkCfg(p) == [mode |-> "trunk", vlan |-> PrimaryVlan(PortSpec(p)),
                members |-> SeqToSet(trunks[p].sub_ports)]
AccessCfg(p) == [mode |-> "access", vlan |-> PrimaryVlan(PortSpec(p)), members |-> {}]
HasLinkInfo(p) == ports[p].id # "" /\ ports[p].lli # <<>>

\* C14 as stated: once no event of bare-metal port B1 is in flight, its
\* switch port is configured as a trunk if a Trunk exists for the port, as
\* an access port if the port exists with link information and no trunk,
\* and is unconfigured if the port is absent or has no link information and
\* no other bound port with its MAC address uses the physical network.
C14_Original ==
    Quiescent =>
        LET cfg == portcfg[<<"SW2", "Eth1/1">>]
        IN  IF trunks["B1"].exists THEN cfg = TrunkCfg("B1")
            ELSE IF HasLinkInfo("B1") THEN cfg = AccessCfg("B1")
            ELSE ~InUseByOther("B1") => cfg = NoCfg

\* The uplink of host h1 and the compute ports of the store bound to h1.
Uplink == <<"SW1", "Eth1/10">>
OnUplink == {p \in PortIds : /\ ports[p].id # "" /\ ports[p].device_owner = COMPUTE_NOVA
                             /\ ports[p].host = H1}

\* C15: once every event of the VM ports of the uplink is processed (no
\* device failure), the member VLANs of the uplink contain the VLAN of every
\* compute port still in the store at that switch port, ports of another
\* network with the same VLAN id included.
C15_UplinkKeepsNeededVlans ==
    Quiescent =>
        \A p \in OnUplink : PrimaryVlan(ports[p]) \in portcfg[Uplink].members

\* A step in which worker w takes a port event whose handler resolves the
\* switch of a port: update_port_postcommit in its compute and its unbind
\* branch, delete_port_postcommit of a bound port, bind_port of a port of a
\* supported VNIC type.  The port resolved is wk'[w].port.
Resolves(w) ==
    /\ wk[w].pc = "done"
    /\ wk'[w] # wk[w]
    /\ \/ wk'[w].op = "update_port" /\ update_port_branch(wk'[w].cur, wk'[w].orig) \in {"a", "c"}
       \/ wk'[w].op = "delete_port" /\ is_port_bound(wk'[w].cur)
       \/ wk'[w].op = "bind_port" /\ is_port_supported(wk'[w].cur)

\* C16: when a port handler resolves a bare-metal port that has no link
\* information, the handler ends at once with LocalLinkInfoMissingException,
\* whatever the port's owner, binding and network are; it has made no device
\* call, it waits for no lock, and locks and devices are as they were.
C16_LinkInfoMissing ==
    [][\A w \in Workers :
        (Resolves(w) /\ is_port_baremetal(wk'[w].port) /\ wk'[w].port.lli = <<>>) =>
            /\ wk'[w].pc = "done"
            /\ wk'[w].err = LocalLinkInfoMissingException
            /\ wk'[w].calls = <<>>
            /\ lock' = lock
            /\ portcfg' = portcfg
            /\ vlans' = vlans
    ]_vars

C16_Witness ==
    \E w \in Workers :
        /\ wk[w].op = "delete_port"
        /\ is_port_bound(wk[w].cur)
        /\ wk[w].port.lli = <<>>
        /\ wk[w].err = LocalLinkInfoMissingException

\* C17: when a port handler resolves a port whose VNIC type is not
\* bare-metal, whoever owns the port, the port is looked up by its host-id
\* key in the mapping table: with no entry for the key the handler ends
\* without error and without device call, with an entry it goes on to ensure
\* the first mapping of the entry.
C17_HostIdLookupForEveryOwner ==
    [][\A w \in Workers :
        (Resolves(w) /\ ~is_port_baremetal(wk'[w].port)) =>
            LET r == wk'[w]
                mappings == switch_meta_from_port_host_id(r.port, r.net).mappings
            IN  IF mappings = <<>>
                THEN r.pc = "done" /\ r.err = "" /\ r.calls = <<>>
                ELSE has_host(mappings[1][1]) =>
                        /\ r.pc = "acquire"
                        /\ r.sw = mappings[1][1]
                        /\ r.swport = mappings[1][2]
    ]_vars

\* The ports in the store that are bound to one host and resolved by host id.
OnSameHost(p, q) ==
    /\ ~IsNone(ports[p]) /\ ~IsNone(ports[q])
    /\ ~is_port_baremetal(ports[p]) /\ ~is_port_baremetal(ports[q])
    /\ ports[p].host = ports[q].host

\* C18: two passthrough ports of one host whose PCI addresses differ, be it
\* in the bus, in the device or in the function number only, have different
\* mapping-table keys; and the key of a port that is not passthrough is the
\* bare host id, different from every passthrough key of the host.
C18_KeysDifferByAddress ==
    \A p \in PortIds, q \in PortIds :
        OnSameHost(p, q) =>
          /\ (/\ is_port_direct(ports[p]) /\ is_port_direct(ports[q])
              /\ ports[p].pci_slot # NoSlot /\ ports[q].pci_slot # NoSlot
              /\ ports[p].pci_slot # ports[q].pci_slot)
              => host_id_key(ports[p]) # host_id_key(ports[q])
          /\ (/\ is_port_direct(ports[p]) /\ ports[p].pci_slot # NoSlot
              /\ ~is_port_direct(ports[q])) =>
                /\ host_id_key(ports[q]) = ports[q].host
                /\ host_id_key(ports[p]) # host_id_key(ports[q])

\* The first mapping the handler of a step that resolves passes to
\* ensure_port (<<>> when the resolution fails or finds none).
FirstMapping(w) ==
    LET meta == get_switch_meta(wk'[w].port, wk'[w].net, FALSE)
    IN  IF meta.err = "" /\ meta.mappings # <<>> THEN meta.mappings[1] ELSE <<>>

\* C19: ensure_port called with a switch name that is not in the inventory
\* raises MechanismDriverError: the handler never waits for, takes or holds
\* a lock for such a switch and never reads or configures under it.  When
\* the first mapping of an event names the unknown switch, the handler ends
\* in that step without call and without re-read, and locks, devices and
\* the store (but for the committed event itself) stay as they were; when a
\* later mapping names it, the handler ends holding nothing as soon as the
\* mapping before it is done.
C19_UnknownSwitch ==
    /\ [](\A w \in Workers :
            (wk[w].op \in {"update_port", "delete_port", "bind_port"}
               /\ wk[w].pc \in {"acquire", "locked", "filter", "apply", "mid"}) => has_host(wk[w].sw))
    /\ [][\A w \in Workers :
            /\ (Resolves(w) /\ FirstMapping(w) # <<>> /\ ~has_host(FirstMapping(w)[1])) =>
                  /\ wk'[w].pc = "done"
                  /\ wk'[w].err = MechanismDriverError
                  /\ wk'[w].calls = <<>>
                  /\ wk'[w].updated = NoPort
                  /\ lock' = lock /\ portcfg' = portcfg /\ vlans' = vlans
                  /\ networks' = networks /\ trunks' = trunks
                  /\ \A q \in PortIds : q # wk'[w].cur.id => ports'[q] = ports[q]
            /\ (/\ wk[w].op \in {"update_port", "delete_port", "bind_port"}
                /\ wk[w].pc \in {"apply", "mid"} /\ wk'[w] # wk[w] /\ wk'[w].pc # "mid"
                /\ wk[w].todo # <<>> /\ ~has_host(wk[w].todo[1][1])) =>
                  /\ wk'[w].pc = "done"
                  /\ wk'[w].err # ""
                  /\ (wk'[w].calls = <<>> \/ Last(wk'[w].calls).ok)
                        => wk'[w].err = MechanismDriverError
                  /\ Len(wk'[w].calls) <= Len(wk[w].calls) + 1
                  /\ \A x \in DOMAIN lock : lock'[x] # w
       ]_vars

\* A bind of the port whose link information names the unknown switch has
\* ended with the error, nothing called and nothing locked.
C19_Witness ==
    \E w \in Workers :
        /\ wk[w].pc = "done"
        /\ wk[w].err = MechanismDriverError
        /\ wk[w].op = "bind_port" /\ wk[w].port.id = "B4" /\ wk[w].calls = <<>>
        /\ \A x \in DOMAIN lock : lock[x] = NoOne

\* The arguments _set_port_state is tried on in each store: no port or a
\* port of the store, any switch name or none, any switch port or none.
StatePorts == {NoPort} \cup {ports[q] : q \in PortIds}
StateSwitches == SwitchNames \cup {""}
StateSwitchPorts == SwitchPorts \cup {""}

\* C20: _set_port_state raises an error and makes no device call when the
\* port is missing, the switch name or the switch port is missing, the switch
\* is not in the inventory, or the network of the port is not in the store;
\* the checks come in that order, so the error raised is that of the first of
\* them that fails.  The error is MechanismDriverError, except that for a
\* port passed as a dict the last check ends in the AttributeError of
\* formatting its message.  A handler step in which these checks fail ends
\* the handler with the error, without call and with the devices as they
\* were.
C20_SetPortStateChecks ==
    /\ [](\A port \in StatePorts, sw \in StateSwitches, swport \in StateSwitchPorts,
             isobj \in BOOLEAN :
            LET out == set_port_state(port, sw, swport, isobj)
                msg == set_port_state_msg(port, sw, swport, isobj)
                no_port == IsNone(port)
                no_switch == sw = "" \/ swport = ""
                unknown == sw \notin Inventory
                no_network == ~no_port /\ ~networks[port.network_id].exists
            IN  /\ (no_port \/ no_switch \/ unknown \/ no_network) =>
                        /\ out.call = NoCall
                        /\ out.err \in {MechanismDriverError, "AttributeError"}
                        /\ (out.err = "AttributeError") =
                              (~no_switch /\ ~unknown /\ no_network /\ ~isobj)
                /\ msg = (IF no_port THEN "Null port passed to set_port_state"
                          ELSE IF no_switch
                          THEN "couldnt find switch_name or switch port to set port state"
                          ELSE IF unknown THEN "couldnt find switch_name in inventory"
                          ELSE IF no_network /\ isobj THEN "couldnt find network for port"
                          ELSE IF no_network THEN "'dict' object has no attribute 'id'"
                          ELSE "")
                /\ (msg = "") = (out.err \in {"", "IndexError"}))
    /\ [][\A w \in Workers :
            (SetsPortState(w)
               /\ set_port_state_msg(StatePort(w), wk[w].sw, wk[w].swport,
                                     StateIsObj(w)) # "") =>
                /\ wk'[w].pc = "done"
                /\ wk'[w].err = (IF set_port_state_msg(StatePort(w), wk[w].sw,
                                        wk[w].swport, StateIsObj(w))
                                      = "'dict' object has no attribute 'id'"
                                 THEN "AttributeError" ELSE MechanismDriverError)
                /\ IssuesNone(w)
                /\ portcfg' = portcfg
                /\ \A x \in DOMAIN lock : lock'[x] # w
       ]_vars

\* A compute port's update handler found the port's network gone and has
\* ended with the error, without call.
C20_Witness ==
    \E w \in Workers :
        /\ wk[w].op = "update_port" /\ wk[w].port.id = "P1"
        /\ wk[w].pc = "done" /\ wk[w].err = "AttributeError"
        /\ wk[w].calls = <<>>
        /\ ~networks["N1"].exists

\* The device calls whose failure the driver catches.
WrappedCalls == {"create_vlan", "delete_vlan", "conf_trunk_port", "add_trunk_vlan",
                 "conf_access_port", "delete_port"}

\* C21: a failure of create_vlan, delete_vlan, of the call of _set_port_state
\* or of delete_port ends the handler in that step with
\* NetworkingAnsibleMechException: the worker holds no lock afterwards, waits
\* for none, and the failed call is the last one of the event (no retry, no
\* call for the switches or mappings that remain).
C21_DeviceFailureTerminal ==
    /\ [](\A w \in Workers : \A i \in 1..Len(wk[w].calls) :
            (~wk[w].calls[i].ok /\ wk[w].calls[i].op \in WrappedCalls) =>
                /\ i = Len(wk[w].calls)
                /\ wk[w].pc = "done"
                /\ wk[w].err = NetworkingAnsibleMechException
                /\ \A x \in DOMAIN lock : lock[x] # w)
    /\ [][\A w \in Workers :
            (NewCalls(w) # {} /\ ~Last(wk'[w].calls).ok
               /\ Last(wk'[w].calls).op \in WrappedCalls) =>
                /\ IssuesOne(w)
                /\ wk'[w].pc = "done"
                /\ wk'[w].err = NetworkingAnsibleMechException
                /\ lock'[Last(wk'[w].calls).sw] = NoOne
                /\ vlans' = vlans /\ portcfg' = portcfg
       ]_vars

\* A handler has ended on a failed delete_port with the domain error.
C21_Witness ==
    \E w \in Workers :
        /\ wk[w].pc = "done"
        /\ wk[w].err = NetworkingAnsibleMechException
        /\ wk[w].calls # <<>>
        /\ Last(wk[w].calls).op = "delete_port"
        /\ ~Last(wk[w].calls).ok

\* A step in which ensure_port, past its reads, handles a port that is not
\* compute-owned and whose re-read has link information.
SetsBaremetalState(w) ==
    /\ wk[w].pc = "apply" /\ wk'[w] # wk[w]
    /\ wk[w].op \in PortHooks
    /\ ~is_port_normal(wk[w].port)
    /\ get_port_lli(wk[w].updated, TRUE) # <<>>

\* The binding set_binding records: the first segment to bind, VIF type other.
FirstPending(w) == [segment |-> wk[w].segs[1], vif_type |-> VIF_TYPE_OTHER]

\* C22: a binding is set only in a step in which ensure_port handles a port
\* with link information, the call of _set_port_state has succeeded and
\* the handler has segments to bind; it is then the first of these segments
\* with VIF type other, and it is set whenever these conditions hold.  When
\* the checks of _set_port_state fail, the device call fails, or there are
\* no segments to bind, no binding is set and the port stays as it is.  A
\* binding is left to be written to the store exactly when bind_port has
\* returned without error with a binding set, and a port of the store gets
\* VIF type other only from such a binding.
C22_BindingAfterSuccess ==
    [][\A w \in Workers :
        LET called == IssuesOne(w) /\ Last(wk'[w].calls).ok
        IN  /\ (wk'[w].bound # wk[w].bound /\ wk'[w].bound # <<>>) =>
                  /\ SetsBaremetalState(w)
                  /\ called
                  /\ Last(wk'[w].calls).op \in {"conf_access_port", "conf_trunk_port"}
                  /\ portcfg' = DevicePorts(Last(wk'[w].calls))
                  /\ wk[w].segs # <<>>
                  /\ wk'[w].bound = Append(wk[w].bound, FirstPending(w))
            /\ (SetsBaremetalState(w) /\ called /\ wk[w].segs # <<>>) =>
                  wk'[w].bound = Append(wk[w].bound, FirstPending(w))
            /\ (SetsBaremetalState(w) /\ (~called \/ wk[w].segs = <<>>)) =>
                  /\ wk'[w].bound = wk[w].bound
                  /\ ports' = ports
            /\ (wk'[w] # wk[w] /\ ~wk[w].pending) =>
                  wk'[w].pending = (/\ wk'[w].op = "bind_port" /\ wk'[w].pc = "done"
                                    /\ wk'[w].err = "" /\ wk'[w].bound # <<>>)
            /\ \A q \in PortIds :
                  (/\ ~IsNone(ports[q]) /\ ports[q].vif_type # VIF_TYPE_OTHER
                   /\ ~IsNone(ports'[q]) /\ ports'[q].vif_type = VIF_TYPE_OTHER) =>
                     \E v \in Workers :
                        /\ wk[v].pending /\ ~wk'[v].pending
                        /\ wk[v].port.id = q /\ Last(wk[v].calls).ok
    ]_vars

\* A bind has configured the switch port and its binding is committed.
C22_Witness ==
    \E w \in Workers :
        /\ wk[w].op = "bind_port" /\ wk[w].pc = "done" /\ wk[w].err = ""
        /\ wk[w].bound = <<[segment |-> Segment("vlan", 50, "physnet1"),
                            vif_type |-> VIF_TYPE_OTHER]>>
        /\ Last(wk[w].calls).ok
        /\ ports["B1"].vif_type = VIF_TYPE_OTHER

\* A step in which ensure_port, past its reads, handles a port that is not
\* compute-owned and whose re-read is absent or has no link information.
FindsPortGone(w) ==
    /\ wk[w].pc = "apply" /\ wk'[w] # wk[w]
    /\ wk[w].op \in PortHooks
    /\ ~is_port_normal(wk[w].port)
    /\ get_port_lli(wk[w].updated, TRUE) = <<>>

\* Some port of the store has the MAC address, has link information and is
\* on a network with a vlan segment on the physical network.
MacStillUsed(mac, physnet) ==
    \E q \in PortIds :
        /\ ports[q].id # ""
        /\ ports[q].mac_address = mac
        /\ ports[q].lli # <<>>
        /\ \E seg \in SeqToSet(networks[ports[q].network_id].segments) :
              seg.network_type = "vlan" /\ seg.physical_network = physnet

\* The port, as the handler has read it, has link information and its
\* network has now a vlan segment on the physical network.
UsesPhysnet(port, physnet) ==
    /\ port.lli # <<>>
    /\ \E seg \in SeqToSet(networks[port.network_id].segments) :
          seg.network_type = "vlan" /\ seg.physical_network = physnet

\* C23: when ensure_port finds a port that is not compute-owned absent from
\* the store or without link information, it reads the ports of the store
\* that have the MAC address, and then the network of each in turn; it makes
\* no device call and ends without error at the first of them that has link
\* information and whose network has a vlan segment on the physical network
\* of the event; when none of them is left it calls delete_port(switch,
\* switch port) once.
C23_DeletePortUnlessMacInUse ==
    [][\A w \in Workers :
        /\ FindsPortGone(w) =>
              /\ IssuesNone(w) /\ portcfg' = portcfg
              /\ wk'[w].pc = "mid" /\ wk'[w].err = ""
              /\ wk'[w].mports = {ports[q] : q \in {x \in PortIds :
                                       /\ ports[x].id # ""
                                       /\ ports[x].mac_address = wk[w].port.mac_address}}
        /\ (wk[w].pc = "mid" /\ wk'[w] # wk[w]) =>
              CASE wk'[w].pc = "mid" ->
                     /\ IssuesNone(w) /\ portcfg' = portcfg
                     /\ \E port \in wk[w].mports :
                           /\ ~UsesPhysnet(port, wk[w].net.physical_network)
                           /\ wk'[w].mports = wk[w].mports \ {port}
                [] wk'[w].pc # "mid" /\ IssuesNone(w) ->
                     /\ wk'[w].err = "" /\ portcfg' = portcfg
                     /\ \E port \in wk[w].mports :
                           UsesPhysnet(port, wk[w].net.physical_network)
                [] OTHER ->
                     /\ wk[w].mports = {}
                     /\ IssuesOne(w)
                     /\ Issued(w) = Call("delete_port", wk[w].sw, wk[w].swport, 0, <<>>, TRUE)
                     /\ Last(wk'[w].calls).ok =>
                            portcfg' = delete_port(wk[w].sw, wk[w].swport)
        /\ (wk[w].pc = "mid" /\ wk[w].mports = {} /\ wk'[w] # wk[w]) => IssuesOne(w)
    ]_vars

\* An unbind of B1 has ended without call while B2, with the same MAC
\* address and link information, is in the store on the same physical network.
C23_Witness ==
    \E w \in Workers :
        /\ wk[w].op = "update_port" /\ wk[w].port.id = "B1"
        /\ wk[w].pc = "done" /\ wk[w].err = "" /\ wk[w].calls = <<>>
        /\ ports["B1"].id = "B1" /\ ports["B1"].lli = <<>>
        /\ MacStillUsed(wk[w].port.mac_address, wk[w].net.physical_network)

\* The switches whose lock worker w holds.
HeldBy(w) == {name \in DOMAIN lock : lock[name] = w}

\* C24: a handler holds the lock of at most one switch, and none while it
\* waits for a lock, before its first lock or after its return: it has
\* released one switch before it asks for the next.  A handler that waits
\* is kept waiting only by a handler inside the block of the same switch,
\* whatever is held on other switches, and a handler inside a block can
\* always take its next step: no handler waits for ever on another one that
\* waits.
C24_OneLockAtATime ==
    /\ \A w \in Workers :
          /\ Cardinality(HeldBy(w)) <= 1
          /\ wk[w].pc \in {"locked", "filter", "apply", "mid"} => HeldBy(w) = {wk[w].sw}
          /\ wk[w].pc \notin {"locked", "filter", "apply", "mid"} => HeldBy(w) = {}
    /\ \A w \in Workers :
          wk[w].pc = "acquire" =>
              \/ ENABLED get_lock(w)
              \/ \E w2 \in Workers \ {w} :
                    /\ InCritical(w2, wk[w].sw)
                    /\ ENABLED Step(w2)
    /\ \A w \in Workers : wk[w].pc \notin {"done", "acquire"} => ENABLED Step(w)

\* Two handlers are inside the blocks of two switches at the same time, one
\* of them after it has finished with, and released, another switch.
C24_Witness ==
    \E w1, w2 \in Workers :
        /\ InCritical(w1, "SW1") /\ lock["SW1"] = w1
        /\ InCritical(w2, "SW3") /\ lock["SW3"] = w2
        /\ wk[w2].calls # <<>> /\ Last(wk[w2].calls).sw = "SW1"

\* A step in which ensure_port(delete=True), under the lock, reads the other
\* compute ports of the network of a passthrough port.
ReadsForDirectDelete(w) ==
    /\ wk[w].pc = "locked" /\ wk'[w] # wk[w]
    /\ wk[w].op = "delete_port"
    /\ is_port_normal(wk[w].port) /\ is_port_direct(wk[w].port)

\* The compute-owned ports of the store on the network of port.
ComputePortsOnNetworkOf(port) ==
    {q \in PortIds : /\ ports[q].id # ""
                     /\ ports[q].device_owner = COMPUTE_NOVA
                     /\ ports[q].network_id = port.network_id}

\* Port db_port is in the way of removing the VLAN of port at switch port
\* swport: it resolves (by its first mapping) to that switch port, its
\* network has the same segmentation id and it is another port.  A port
\* that resolves to nothing is not in the way.
BlocksRemoval(db_port, port, swport, segmentation_id) ==
    LET mappings == switch_meta_from_port_host_id(db_port, NoNetDict).mappings
    IN  /\ mappings # <<>>
        /\ mappings[1][2] = swport
        /\ PrimaryVlan(db_port) = segmentation_id
        /\ db_port.id # port.id

\* C25: when a passthrough compute port is deleted, the handler reads the
\* other compute ports of its network and looks at each in turn; the ports
\* found in the way of removing its VLAN from the switch port are exactly
\* those that resolve to the same switch port with the same segmentation id;
\* no step ends with an error whatever the other ports resolve to, a port
\* without mapping included; and then delete_trunk_vlan is called exactly
\* when no port is in the way.
C25_DirectDeleteFilter ==
    [][\A w \in Workers :
        /\ ReadsForDirectDelete(w) =>
              /\ wk'[w].err = ""
              /\ wk'[w].aports = {ports[q] : q \in ComputePortsOnNetworkOf(wk[w].port)}
              /\ wk'[w].active = {}
              /\ wk'[w].pc = IF wk'[w].aports = {} THEN "apply" ELSE "filter"
        /\ (wk[w].pc = "filter" /\ wk'[w] # wk[w]) =>
              /\ wk'[w].err = ""
              /\ wk'[w].pc = IF wk'[w].aports = {} THEN "apply" ELSE "filter"
              /\ \E db_port \in wk[w].aports :
                    /\ wk'[w].aports = wk[w].aports \ {db_port}
                    /\ wk'[w].active = wk[w].active \cup
                          (IF BlocksRemoval(db_port, wk[w].port, wk[w].swport,
                                            wk[w].net.segmentation_id)
                           THEN {db_port.id} ELSE {})
        /\ (/\ wk[w].pc = "apply" /\ wk'[w] # wk[w] /\ wk[w].op = "delete_port"
            /\ is_port_normal(wk[w].port) /\ is_port_direct(wk[w].port)) =>
              IF wk[w].active = {}
              THEN /\ IssuesOne(w)
                   /\ Issued(w) = Call("delete_trunk_vlan", wk[w].sw, wk[w].swport,
                                        wk[w].net.segmentation_id, <<>>, TRUE)
              ELSE IssuesNone(w) /\ wk'[w].err = ""
    ]_vars

\* The event of worker w is for a network that is not of type vlan or has
\* no segmentation id.
NotActionable(w) ==
    /\ wk[w].op \in {"create_network", "delete_network"}
    /\ ~(wk[w].net.network_type = "vlan" /\ wk[w].net.segmentation_id # 0)

\* C26: the handler of a network-create or network-delete event for a
\* network that is not of type vlan, or that has no segmentation id, never
\* comes to a device call: it has made none, it has no error, and no step of
\* it changes the VLANs of a switch.
C26_OnlyVlanActionable ==
    /\ [](\A w \in Workers :
            NotActionable(w) =>
                /\ wk[w].calls = <<>>
                /\ wk[w].err = ""
                /\ wk[w].pc # "apply")
    /\ [][\A w \in Workers :
            (NotActionable(w) /\ wk[w].pc # "done" /\ wk'[w] # wk[w]) =>
                /\ vlans' = vlans
                /\ IssuesNone(w)
                /\ wk'[w].err = ""
       ]_vars

\* A vxlan network with segmentation id 50 was created and deleted again
\* while VLAN 50 of a vlan network stays on the switches.
C26_Witness ==
    \E w \in Workers :
        /\ wk[w].op = "delete_network" /\ wk[w].pc = "done"
        /\ wk[w].net.network_type = "vxlan" /\ wk[w].net.segmentation_id = 50
        /\ wk[w].calls = <<>> /\ wk[w].err = ""
        /\ 50 \in vlans["SW1"]

\* Some network of the store has a vlan segment with id v.
VlanIdInStore(v) ==
    \E n \in NetIds : \E seg \in SeqToSet(networks[n].segments) :
        seg.network_type = "vlan" /\ seg.segmentation_id = v

\* Once every event is processed, VLAN v is on every VLAN-managing switch if
\* some vlan segment with id v is in the store, and on none otherwise.
Converged(v) ==
    Quiescent =>
        \A s \in Inventory : VlanManaging(s) => ((v \in vlans[s]) <=> VlanIdInStore(v))

\* C27 as stated: whatever the physical networks of the segments with id 50.
C27_Original == Converged(50)

\* C27, amended: when all vlan segments with id 50 are on one physical
\* network, then for every interleaving of network create and delete events
\* (no device failure), once all events are processed VLAN 50 is on a
\* VLAN-managing switch if and only if a vlan segment with id 50 is in the
\* store.
C27_ConvergesOnOnePhysnet == "physnet2" \notin scope => Converged(50)

\* All three events are processed: two networks with VLAN 50 were created
\* and one of them deleted, the delete hook issued nothing because the other
\* segment was in the store, and the VLAN is on the managing switches.
C27_Witness ==
    /\ "physnet2" \notin scope
    /\ Quiescent /\ nevents = 3
    /\ VlanIdInStore(50)
    /\ \A s \in Inventory : VlanManaging(s) => 50 \in vlans[s]
    /\ \E w \in Workers : wk[w].op = "delete_network" /\ wk[w].net.network_type = "vlan"
                            /\ wk[w].calls = <<>>

\* Worker w's hook starts in this step.
HookStarts(w, op) == nevents' = nevents + 1 /\ wk'[w] # wk[w] /\ wk'[w].op = op

\* The hook that starts in this step resolves the given port and goes into
\* the non-delete or delete ensure of its first mapping, the other mappings
\* left to do; it ends at once when there is no mapping or the resolution or
\* the inventory lookup fails.
StartsEnsure(w, port, delete) ==
    LET r == wk'[w]
        meta == get_switch_meta(port, r.net, FALSE)
    IN  /\ r.port = port /\ r.del = delete /\ r.calls = <<>>
        /\ IF meta.err # "" THEN r.pc = "done" /\ r.err = meta.err
           ELSE IF meta.mappings = <<>> THEN r.pc = "done" /\ r.err = ""
           ELSE IF ~has_host(meta.mappings[1][1])
                THEN r.pc = "done" /\ r.err = MechanismDriverError
           ELSE /\ r.pc = "acquire" /\ r.err = ""
                /\ <<r.sw, r.swport>> = meta.mappings[1]
                /\ r.todo = Tail(meta.mappings)

\* The hook that starts in this step ends in it: no resolution, no lock, no
\* device operation, no error.
DoesNothing(w) ==
    /\ wk'[w].pc = "done" /\ wk'[w].calls = <<>> /\ wk'[w].err = ""
    /\ wk'[w].sw = "" /\ lock' = lock /\ vlans' = vlans /\ portcfg' = portcfg

\* C28: a port-update event takes exactly one of four branches, in this
\* priority: (a) the current port is compute-owned, whatever its binding: the
\* non-delete ensure of the current port; (b) else the current port is bound
\* by the driver: provisioning is marked complete, nothing else is done;
\* (c) else the original port was bound by the driver: the non-delete ensure
\* of the original port; (d) else nothing is done.
C28_UpdateBranches ==
    [][\A w \in Workers : HookStarts(w, "update_port") =>
          LET cur == wk'[w].cur
              orig == wk'[w].orig
          IN  IF cur.device_owner = COMPUTE_NOVA
              THEN StartsEnsure(w, cur, FALSE) /\ wk'[w].prov = <<>>
              ELSE IF is_port_bound(cur)
              THEN DoesNothing(w) /\ wk'[w].prov = <<"complete">>
              ELSE IF is_port_bound(orig)
              THEN StartsEnsure(w, orig, FALSE) /\ wk'[w].prov = <<>>
              ELSE DoesNothing(w) /\ wk'[w].prov = <<>>]_vars

\* One update hook has marked the provisioning of a bound bare-metal port
\* complete, while the update hook of an unbind waits for the lock of the
\* switch of the original port.
C28_Witness ==
    \E w1, w2 \in Workers :
        /\ wk[w1].op = "update_port" /\ wk[w1].prov = <<"complete">>
        /\ wk[w1].cur.device_owner # COMPUTE_NOVA /\ wk[w1].pc = "done"
        /\ wk[w2].op = "update_port" /\ wk[w2].pc = "acquire"
        /\ wk[w2].cur.device_owner # COMPUTE_NOVA
        /\ ~is_port_bound(wk[w2].cur) /\ is_port_bound(wk[w2].orig)
        /\ wk[w2].port = wk[w2].orig

\* Bound by this driver as C29 words it: a supported VNIC type and either
\* bare-metal with VIF type "other" or compute-owned with VIF type "ovs".
BoundAsWorded(port) ==
    /\ port.vnic_type \in {VNIC_BAREMETAL, VNIC_NORMAL, VNIC_DIRECT}
    /\ \/ port.vnic_type = VNIC_BAREMETAL /\ port.vif_type = VIF_TYPE_OTHER
       \/ port.device_owner = COMPUTE_NOVA /\ port.vif_type = VIF_TYPE_OVS

\* Bound by this driver, the second alternative for the other VNIC types
\* only: a port with the bare-metal VNIC type is bound by its VIF type
\* "other" alone, also when compute owns it.
BoundByDriver(port) ==
    /\ port.vnic_type \in {VNIC_BAREMETAL, VNIC_NORMAL, VNIC_DIRECT}
    /\ \/ port.vnic_type = VNIC_BAREMETAL /\ port.vif_type = VIF_TYPE_OTHER
       \/ /\ port.vnic_type # VNIC_BAREMETAL
          /\ port.device_owner = COMPUTE_NOVA /\ port.vif_type = VIF_TYPE_OVS

\* A delete hook acts on the ports that are bound in the sense of IsBound and
\* on no other: for a bound port it resolves the port and runs the delete
\* ensure for the first mapping, then for each mapping that is left, and
\* returns when none is left; for every other port it ends at once.
DeleteActsOn(IsBound(_)) ==
    \A w \in Workers :
          /\ HookStarts(w, "delete_port") =>
                IF IsBound(wk'[w].cur)
                THEN StartsEnsure(w, wk'[w].cur, TRUE)
                ELSE DoesNothing(w)
          /\ (wk[w].op = "delete_port" /\ wk[w].pc \in {"apply", "mid"}
               /\ wk'[w].pc = "acquire")
                => /\ wk[w].todo # <<>> /\ wk'[w].del
                   /\ <<wk'[w].sw, wk'[w].swport>> = wk[w].todo[1]
                   /\ wk'[w].todo = Tail(wk[w].todo)
          /\ (wk[w].op = "delete_port" /\ wk[w].pc \in {"apply", "mid"}
               /\ wk'[w].pc = "done" /\ wk'[w].err = "") => wk[w].todo = <<>>

\* C29 as stated: a port-delete event acts only on a port of a supported
\* VNIC type that is bare-metal with VIF type "other" or compute-owned with
\* VIF type "ovs": for such a port the delete ensure runs once per resolved
\* mapping, for every other port the event resolves nothing, takes no lock
\* and issues no device operation.
C29_AsWorded == [][DeleteActsOn(BoundAsWorded)]_vars

\* C29, amended: a port-delete event acts only on a port of a supported VNIC
\* type that has the bare-metal VNIC type and VIF type "other", or another
\* VNIC type, compute as owner and VIF type "ovs": for such a port the delete
\* ensure runs once per resolved mapping, for every other port (a
\* compute-owned port with the bare-metal VNIC type and VIF type "ovs"
\* included) the event resolves nothing, takes no lock and issues no device
\* operation.
C29_DeleteOnlyBound == [][DeleteActsOn(BoundByDriver)]_vars

\* The delete hook of a compute port with VIF type "ovs" is at the second of
\* its two mappings, and the delete hook of a compute-owned port with the
\* bare-metal VNIC type and VIF type "ovs" has ended without a call.
C29_Witness ==
    \E w1, w2 \in Workers :
        /\ wk[w1].op = "delete_port" /\ BoundByDriver(wk[w1].cur)
        /\ wk[w1].cur.vnic_type = VNIC_NORMAL /\ wk[w1].cur.vif_type = VIF_TYPE_OVS
        /\ wk[w1].pc = "apply" /\ wk[w1].del
        /\ Len(wk[w1].calls) = 1 /\ wk[w1].sw # wk[w1].calls[1].sw /\ wk[w1].todo = <<>>
        /\ wk[w2].op = "delete_port" /\ ~BoundByDriver(wk[w2].cur)
        /\ BoundAsWorded(wk[w2].cur)
        /\ wk[w2].pc = "done" /\ wk[w2].calls = <<>> /\ wk[w2].err = ""

\* C30: bind_port declines a port whose VNIC type is not supported: it
\* returns without error before the resolution, adds no provisioning
\* component, takes no lock, issues no device operation and commits no
\* binding, also when the port has no link information.
C30_BindDeclinesUnsupported ==
    [][\A w \in Workers :
          (HookStarts(w, "bind_port")
             /\ wk'[w].cur.vnic_type \notin {VNIC_BAREMETAL, VNIC_NORMAL, VNIC_DIRECT})
          => /\ DoesNothing(w)
             /\ wk'[w].prov = <<>> /\ wk'[w].bound = <<>>
             /\ ports'[wk'[w].cur.id].vif_type = VIF_TYPE_UNBOUND]_vars

\* bind_port has returned for the macvtap port that compute does not own and
\* that has no link information: no error, no call, no binding.
C30_Witness ==
    \E w \in Workers :
        /\ wk[w].op = "bind_port" /\ wk[w].pc = "done"
        /\ wk[w].cur.vnic_type = VNIC_MACVTAP /\ wk[w].cur.lli = <<>>
        /\ wk[w].cur.device_owner # COMPUTE_NOVA
        /\ wk[w].err = "" /\ wk[w].calls = <<>> /\ wk[w].bound = <<>>
        /\ ports[wk[w].cur.id].vif_type = VIF_TYPE_UNBOUND

\* The device operations that set the member VLANs of a trunk uplink.
UplinkVlanOps == {"add_trunk_vlan", "delete_trunk_vlan", "conf_trunk_port"}

\* Worker w runs a port hook whose ensure calls are for a compute-owned port.
EnsuresVmPort(w) ==
    wk[w].op \in PortHooks /\ wk[w].port.device_owner = COMPUTE_NOVA

\* C31: for a compute-owned port the driver never commits a binding: in every
\* ensure call on such a port, delete or not, with or without segments to
\* bind, set_binding is not called and the binding in the store is left
\* alone, and every device operation issued sets the member VLANs of an
\* uplink the port resolves to; no other switch port and no VLAN of a switch
\* changes.
C31_VmPortNeverBound ==
    /\ [](\A w \in Workers : EnsuresVmPort(w) =>
             LET r == wk[w]
                 meta == get_switch_meta(r.port, r.net, FALSE)
             IN  /\ r.bound = <<>> /\ ~r.pending
                 /\ \A i \in 1..Len(r.calls) :
                       /\ r.calls[i].op \in UplinkVlanOps
                       /\ meta.err = ""
                       /\ <<r.calls[i].sw, r.calls[i].port>> \in SeqToSet(meta.mappings))
    /\ [][\A w \in Workers :
             (EnsuresVmPort(w) /\ wk[w].pc = "apply" /\ wk'[w] # wk[w]) =>
                /\ ports' = ports /\ vlans' = vlans
                /\ \A sp \in SwPorts :
                      sp # <<wk[w].sw, wk[w].swport>> => portcfg'[sp] = portcfg[sp]]_vars

\* bind_port has ended for a compute port with segments to bind: its one
\* call added the VLAN to the uplink, no binding was set and the port is
\* still unbound in the store.
C31_Witness ==
    \E w \in Workers :
        /\ wk[w].op = "bind_port" /\ wk[w].pc = "done" /\ wk[w].err = ""
        /\ wk[w].port.device_owner = COMPUTE_NOVA /\ wk[w].segs # <<>>
        /\ Len(wk[w].calls) = 1 /\ wk[w].calls[1].op = "add_trunk_vlan" /\ wk[w].calls[1].ok
        /\ wk[w].bound = <<>>
        /\ ports[wk[w].port.id].vif_type = VIF_TYPE_UNBOUND

\* Worker w takes a step of ensure_subports from position pc.
SubportsStep(w, pc) ==
    wk[w].op = "ensure_subports" /\ wk[w].pc = pc /\ wk'[w] # wk[w]

\* The call of worker w ends in this step with no device call and no error,
\* and the device is as it was.
EndsAsNoOp(w) ==
    /\ wk'[w].pc = "done" /\ wk'[w].err = "" /\ wk'[w].calls = <<>>
    /\ vlans' = vlans /\ portcfg' = portcfg
    /\ \A s \in DOMAIN lock : lock'[s] # w

\* C32: ensure_subports does nothing when the parent port is deleted, seen
\* at the first read before the lock or at the re-read under the lock of the
\* switch: no device call, no error.  When the port is still in the store at
\* the re-read, _set_port_state runs with the port as re-read, not with the
\* port read before the lock.
C32_SubportsOfDeletedParent ==
    [][\A w \in Workers :
          /\ (SubportsStep(w, "start") /\ IsNone(ports[wk[w].port_id])) => EndsAsNoOp(w)
          /\ SubportsStep(w, "locked") =>
                IF IsNone(ports[wk[w].port_id])
                THEN EndsAsNoOp(w)
                ELSE /\ wk'[w].pc = "apply" /\ lock'[wk[w].sw] = w
                     /\ wk'[w].updated = ports[wk[w].port_id]
          /\ SubportsStep(w, "apply") =>
                LET out == set_port_state(wk[w].updated, wk[w].sw, wk[w].swport, TRUE)
                IN  /\ wk'[w].err = "" => (IssuesOne(w) /\ Issued(w) = out.call)
                    /\ out.err # "" => (IssuesNone(w) /\ wk'[w].err = out.err)]_vars

\* ensure_subports has ended without a call and without an error for a
\* parent port that was in the store, with a mapping, at the first read and
\* was gone at the re-read under the lock.
C32_Witness ==
    \E w \in Workers :
        /\ wk[w].op = "ensure_subports" /\ wk[w].pc = "done"
        /\ wk[w].err = "" /\ wk[w].calls = <<>>
        /\ ~IsNone(wk[w].port)
        /\ get_switch_meta(wk[w].port, NoNetDict, TRUE).err = ""
        /\ get_switch_meta(wk[w].port, NoNetDict, TRUE).mappings # <<>>
        /\ IsNone(ports[wk[w].port_id])

\* Worker w is in ensure_port, after its reads, for a port that compute does
\* not own, and takes its step.
EnsuresOtherPort(w) ==
    /\ wk[w].op \in PortHooks /\ wk[w].pc \in {"apply", "mid"} /\ wk'[w] # wk[w]
    /\ wk[w].port.device_owner # COMPUTE_NOVA

\* The call of worker w with the other value of the delete flag.
Flipped(w) == [wk[w] EXCEPT !.del = ~wk[w].del]

\* C33: for a port that is not a VM port the outcome of ensure_port does not
\* depend on the delete flag: what the call does over a store, a switch and
\* a switch port (the device call or none, the error, the binding set) is
\* what the call with the other value of the flag does there (for a port
\* found gone: the query for the ports with its MAC address, the turns of
\* the test whether one of them is in use, and the delete_port call when
\* none is); a delete call for a port that is still in the store with link
\* information configures the switch port, it does not unconfigure it.
C33_DeleteFlagIgnored ==
    [][\A w \in Workers : EnsuresOtherPort(w) =>
          LET r == wk[w]
              other == Flipped(w)
              branch == ensure_port_branch(other.port, other.updated, other.del)
              out == ensure_port_outcome(other)
          IN  /\ (branch = "bm_gone" /\ r.pc = "apply") =>
                    /\ IssuesNone(w) /\ wk'[w].pc = "mid" /\ wk'[w].err = ""
                    /\ wk'[w].mports = {ports[q] : q \in {x \in PortIds :
                                            /\ ports[x].id # ""
                                            /\ ports[x].mac_address = r.port.mac_address}}
              /\ (branch = "bm_gone" /\ r.pc = "mid") =>
                    IF r.mports = {}
                    THEN IssuesOne(w) /\ Issued(w) = out.call
                    ELSE /\ IssuesNone(w) /\ wk'[w].err = ""
                         /\ \E port \in r.mports :
                               IF is_deleted_port_in_use(other.net.physical_network, port)
                               THEN wk'[w].pc # "mid"
                               ELSE wk'[w].mports = r.mports \ {port}
              /\ branch # "bm_gone" =>
                    IF out.err # "" \/ out.call = NoCall
                    THEN IssuesNone(w)
                    ELSE IssuesOne(w) /\ Issued(w) = out.call
              /\ out.err # "" => wk'[w].err = out.err
              /\ wk'[w].err = "" => wk'[w].bound = set_binding(other, branch).bound
              /\ (r.del /\ get_port_lli(r.updated, TRUE) # <<>> /\ wk'[w].err = "")
                   => /\ IssuesOne(w)
                      /\ Issued(w).op \in {"conf_access_port", "conf_trunk_port"}
                      /\ portcfg'[<<r.sw, r.swport>>].mode \in {"access", "trunk"}
                      /\ portcfg'[<<r.sw, r.swport>>].vlan = PrimaryVlan(r.updated)]_vars

\* ensure_port was called with delete set for the bare-metal port, which
\* is in the store with its link information: the call has ended, its one
\* call configured the switch port as an access port of the port's VLAN.
C33_Witness ==
    \E w \in Workers :
        /\ wk[w].op = "delete_port" /\ wk[w].del /\ wk[w].pc = "done" /\ wk[w].err = ""
        /\ wk[w].port.device_owner # COMPUTE_NOVA
        /\ ~IsNone(ports[wk[w].port.id]) /\ ports[wk[w].port.id].lli # <<>>
        /\ Len(wk[w].calls) = 1 /\ wk[w].calls[1].op = "conf_access_port"
        /\ wk[w].calls[1].ok
        /\ portcfg[<<wk[w].calls[1].sw, wk[w].calls[1].port>>] =
               [mode |-> "access", vlan |-> 50, members |-> {}]

=============================================================================
